------------------------------ MODULE Accounts ------------------------------
(***************************************************************************)
(* The accounts of the auth service: registration and its approval,        *)
(* sign-in, the caller's own profile and password, and service tokens      *)
(* (backend/crates/auth-service/src: grpc.rs, app.rs, adapters.rs).        *)
(*                                                                         *)
(* A handler is a sequence of SQL statements, each its own transaction;    *)
(* one action is one statement, so what a handler read can be stale when   *)
(* it writes.  Sessions and refresh tokens are in RefreshRotation: here a  *)
(* sign-in ends with the access token, of which the claims sub and tid are *)
(* kept.  No handler writes the statuses disabled and locked.              *)
(***************************************************************************)
EXTENDS FiniteSets

CONSTANTS
  Tenants, Users, Emails, Secrets, ServiceTokens,
  Handlers,  \* RPC handlers that can be in flight
  Seed,      \* the account inserted by hand when the system is set up
  Null,      \* no row yet, no value, and the nil UUID
  Gone       \* the row existed and was deleted

ASSUME SeedIsAccount ==
  /\ Seed.id \in Users
  /\ Seed.tenant \in Tenants
  /\ Seed.email \in Emails
  /\ Seed.secret \in Secrets

VARIABLES
  row,       \* auth.users by id
  svc,       \* auth.service_tokens by id
  claims,    \* the claims of every access token that was issued
  call,      \* the local variables of each handler, and its last answer
  approved   \* history: accounts whose approval was answered with OK

vars == <<row, svc, claims, call, approved>>

Statuses == {"pending", "active"}
Row == [tenant : Tenants, email : Emails, status : Statuses, secret : Secrets]

ServiceToken == [tenant : Tenants, creator : Users, revoked : BOOLEAN]

ASSUME NullsAreNoRows ==
  Null # Gone /\ {Null, Gone} \cap (Users \cup Tenants \cup Row \cup ServiceToken) = {}

\* What a handler returns are the ids of accounts or of service tokens.
ASSUME IdsAreOfOneTable == Users \cap ServiceTokens = {}

Claims == [sub : Users, tid : Tenants] \cup [sub : {Null}, tid : {Null}]
NilClaims == [sub |-> Null, tid |-> Null]

Live(u) == u \in Users /\ row[u] \notin {Null, Gone}
Stored(k) == svc[k] \notin {Null, Gone}

\* A handler at rest: the tenant it answered for, whether with OK, and the rows
\* it returned.  Which error it answered with is named below but not kept.
Rest(t, code, got) ==
  [pc |-> "rest", id |-> Null, tenant |-> t, email |-> Null, secret |-> Null,
   fresh |-> Null, ok |-> code = "ok", got |-> got]

\* A handler about to execute the statement pc.
At(pc, u, t, e, s, n) ==
  [pc |-> pc, id |-> u, tenant |-> t, email |-> e, secret |-> s,
   fresh |-> n, ok |-> FALSE, got |-> {}]

Call ==
  [pc : {"rest"}, id : {Null}, tenant : Tenants \cup {Null}, email : {Null},
   secret : {Null}, fresh : {Null}, ok : BOOLEAN,
   got : SUBSET (Users \cup ServiceTokens)]
  \cup [pc : {"insert", "activate", "remove", "verify", "touch", "check",
              "store", "reread"},
        id : Users \cup {Null}, tenant : Tenants \cup {Null},
        email : Emails \cup {Null}, secret : Secrets \cup {Null},
        fresh : Secrets \cup {Null}, ok : {FALSE}, got : {{}}]

TypeOK ==
  /\ row \in [Users -> Row \cup {Null, Gone}]
  /\ svc \in [ServiceTokens -> ServiceToken \cup {Null, Gone}]
  /\ claims \subseteq Claims
  /\ call \in [Handlers -> Call]
  /\ approved \subseteq Users

Init ==
  /\ row = [u \in Users |->
              IF u = Seed.id
              THEN [tenant |-> Seed.tenant, email |-> Seed.email,
                    status |-> "active", secret |-> Seed.secret]
              ELSE Null]
  /\ svc = [k \in ServiceTokens |-> Null]
  /\ claims = {}
  /\ call = [h \in Handlers |-> Rest(Null, "none", {})]
  /\ approved = {}

-----------------------------------------------------------------------------
\* Statements of PgUserRepo and PgServiceTokenRepo.

FindByEmail(t, e) ==
  {u \in Users : Live(u) /\ row[u].tenant = t /\ row[u].email = e}

FindById(u) == {v \in {u} : Live(v)}

ListPendingRows(t) ==
  {u \in Users : Live(u) /\ row[u].tenant = t /\ row[u].status = "pending"}

\* UNIQUE (tenant_id, email) refuses the statement.
EmailTaken(u, t, e) == FindByEmail(t, e) \ {u} # {}

\* Mutant: no unique index behind the check of register.
CreateUserUnchecked(u, t, e, s) ==
  /\ row[u] = Null
  /\ row' = [row EXCEPT ![u] = [tenant |-> t, email |-> e,
                                status |-> "pending", secret |-> s]]

CreateUser(u, t, e, s) ==
  /\ row[u] = Null
  /\ ~EmailTaken(u, t, e)
  /\ row' = [row EXCEPT ![u] = [tenant |-> t, email |-> e,
                                status |-> "pending", secret |-> s]]

\* An UPDATE of a row that is not there succeeds and changes nothing.
\* Mutant: the status is written as an upsert.
UpdateStatusUpsert(u, status) ==
  row' = [row EXCEPT ![u] = IF Live(u) THEN [row[u] EXCEPT !.status = status]
                            ELSE [status |-> status]]

UpdateStatus(u, status) ==
  row' = IF Live(u) THEN [row EXCEPT ![u].status = status] ELSE row

UpdateProfile(u, e) ==
  row' = IF Live(u) THEN [row EXCEPT ![u].email = e] ELSE row

UpdatePassword(u, s) ==
  row' = IF Live(u) THEN [row EXCEPT ![u].secret = s] ELSE row

\* Mutant: no cascade.
DeleteUserOnly(u) ==
  /\ row' = IF Live(u) THEN [row EXCEPT ![u] = Gone] ELSE row
  /\ UNCHANGED svc

\* DELETE, with the cascade to the service tokens the account created.
DeleteUser(u) ==
  /\ row' = IF Live(u) THEN [row EXCEPT ![u] = Gone] ELSE row
  /\ svc' = [k \in ServiceTokens |->
               IF Stored(k) /\ svc[k].creator = u THEN Gone ELSE svc[k]]

\* INSERT, refused by the foreign keys when the creator does not exist.
CreateToken(k, t, u) ==
  /\ svc[k] = Null
  /\ Live(u)
  /\ svc' = [svc EXCEPT ![k] = [tenant |-> t, creator |-> u, revoked |-> FALSE]]

\* Mutant: the list is not restricted to the tenant.
ListAllTokens(t) == {k \in ServiceTokens : Stored(k) /\ ~svc[k].revoked}

ListActiveTokens(t) ==
  {k \in ServiceTokens : Stored(k) /\ svc[k].tenant = t /\ ~svc[k].revoked}

RevokeToken(k, t) ==
  svc' = IF Stored(k) /\ svc[k].tenant = t
         THEN [svc EXCEPT ![k].revoked = TRUE] ELSE svc

-----------------------------------------------------------------------------
\* Registration, approval and rejection.

Free(h) == call[h].pc = "rest"

Answer(h, t, code, got) == call' = [call EXCEPT ![h] = Rest(t, code, got)]
Proceed(h, next) == call' = [call EXCEPT ![h] = next]

\* The password of a request is one of Secrets, or Null: shorter than 12.
RegisterApp(h, t, e, s) ==
  IF s = Null THEN Answer(h, t, "invalid_argument", {})
  ELSE IF FindByEmail(t, e) # {} THEN Answer(h, t, "already_exists", {})
  ELSE Proceed(h, At("insert", Null, t, e, s, Null))

\* RPC Register needs no access token: the gateway passes the tenant it was given.
Register(h) ==
  /\ Free(h)
  /\ \E t \in Tenants, e \in Emails, s \in Secrets \cup {Null} :
       RegisterApp(h, t, e, s)
  /\ UNCHANGED <<row, svc, claims, approved>>

\* The second statement of register; losing the race for the email is answered
\* as an internal error.
InsertUser(h) ==
  LET c == call[h] IN
  /\ c.pc = "insert"
  /\ \/ /\ \E u \in Users : CreateUser(u, c.tenant, c.email, c.secret)
        /\ Answer(h, c.tenant, "ok", {})
     \/ /\ EmailTaken(Null, c.tenant, c.email)
        /\ Answer(h, c.tenant, "internal", {})
        /\ UNCHANGED row
  /\ UNCHANGED <<svc, claims, approved>>

\* Mutants: the tenant, or the status, of the row is not checked.
RefusalAnyTenant(t, u) ==
  CASE ~Live(u)                   -> "not_found"
    [] row[u].status # "pending"  -> "invalid_argument"
    [] OTHER                      -> "none"

RefusalAnyStatus(t, u) ==
  CASE ~Live(u)                   -> "not_found"
    [] row[u].tenant # t          -> "forbidden"
    [] OTHER                      -> "none"

\* The checks that approve and reject make on the row they read.
Refusal(t, u) ==
  CASE ~Live(u)                   -> "not_found"
    [] row[u].tenant # t          -> "forbidden"
    [] row[u].status # "pending"  -> "invalid_argument"
    [] OTHER                      -> "none"

Approve(h, t, u) ==
  IF Refusal(t, u) # "none" THEN Answer(h, t, Refusal(t, u), {})
  ELSE Proceed(h, At("activate", u, t, Null, Null, Null))

Reject(h, t, u) ==
  IF Refusal(t, u) # "none" THEN Answer(h, t, Refusal(t, u), {})
  ELSE Proceed(h, At("remove", u, t, Null, Null, Null))

\* parse_uuid of the context's tenant: the ids in claims always parse.
ApproveUser(h) ==
  /\ Free(h)
  /\ \E c \in claims, u \in Users : Approve(h, c.tid, u)
  /\ UNCHANGED <<row, svc, claims, approved>>

RejectUser(h) ==
  /\ Free(h)
  /\ \E c \in claims, u \in Users : Reject(h, c.tid, u)
  /\ UNCHANGED <<row, svc, claims, approved>>

Activate(h) ==
  /\ call[h].pc = "activate"
  /\ UpdateStatus(call[h].id, "active")
  /\ approved' = approved \cup {call[h].id}
  /\ Answer(h, call[h].tenant, "ok", {})
  /\ UNCHANGED <<svc, claims>>

Remove(h) ==
  /\ call[h].pc = "remove"
  /\ DeleteUser(call[h].id)
  /\ Answer(h, call[h].tenant, "ok", {})
  /\ UNCHANGED <<claims, approved>>

ListPendingUsers(h) ==
  /\ Free(h)
  /\ \E c \in claims : Answer(h, c.tid, "ok", ListPendingRows(c.tid))
  /\ UNCHANGED <<row, svc, claims, approved>>

-----------------------------------------------------------------------------
\* Signing in.  Login reads the row, then the password, then writes
\* last_login_at (not kept) before the session is created.

\* Mutant: a pending account may sign in.
LoginPending(t, e, s) ==
  LET found == FindByEmail(t, e) IN
  IF found = {} THEN Rest(t, "unauthenticated", {})
  ELSE At("verify", CHOOSE v \in found : TRUE, t, Null, s, Null)

LoginPassword(t, e, s) ==
  LET found == FindByEmail(t, e) IN
  IF found = {} THEN Rest(t, "unauthenticated", {})
  ELSE LET u == CHOOSE v \in found : TRUE IN
       IF row[u].status = "pending" THEN Rest(t, "forbidden", {})
       ELSE At("verify", u, t, Null, s, Null)

Login(h) ==
  /\ Free(h)
  /\ \E t \in Tenants, e \in Emails, s \in Secrets :
       Proceed(h, LoginPassword(t, e, s))
  /\ UNCHANGED <<row, svc, claims, approved>>

\* password_hash and verify_password.
PasswordIs(u, s) == Live(u) /\ row[u].secret = s

VerifyLogin(h) ==
  LET c == call[h] IN
  /\ c.pc = "verify"
  /\ IF PasswordIs(c.id, c.secret)
     THEN Proceed(h, At("touch", c.id, c.tenant, Null, Null, Null))
     ELSE Answer(h, c.tenant, "unauthenticated", {})
  /\ UNCHANGED <<row, svc, claims, approved>>

\* touch_login, sessions.create (refused when the account is gone) and the
\* access token of issue_pair.
GrantSession(h) ==
  LET c == call[h] IN
  /\ c.pc = "touch"
  /\ IF Live(c.id)
     THEN /\ claims' = claims \cup {[sub |-> c.id, tid |-> c.tenant]}
          /\ Answer(h, c.tenant, "ok", {})
     ELSE /\ Answer(h, c.tenant, "internal", {})
          /\ UNCHANGED claims
  /\ UNCHANGED <<row, svc, approved>>

\* refresh issues its access token for the nil UUID as subject and tenant.
RefreshClaims ==
  /\ claims # {}
  /\ claims' = claims \cup {NilClaims}
  /\ UNCHANGED <<row, svc, call, approved>>

-----------------------------------------------------------------------------
\* The caller's own account.

GetMeApp(h, c) ==
  IF FindById(c.sub) = {} THEN Answer(h, c.tid, "not_found", {})
  ELSE Answer(h, c.tid, "ok", FindById(c.sub))

GetMe(h) ==
  /\ Free(h)
  /\ \E c \in claims : GetMeApp(h, c)
  /\ UNCHANGED <<row, svc, claims, approved>>

\* update_me writes first; the index refuses an email that is taken.
UpdateMeApp(h, c, e) ==
  IF Live(c.sub) /\ EmailTaken(c.sub, row[c.sub].tenant, e)
  THEN Answer(h, c.tid, "internal", {}) /\ UNCHANGED row
  ELSE /\ UpdateProfile(c.sub, e)
       /\ Proceed(h, At("reread", c.sub, c.tid, Null, Null, Null))

UpdateMe(h) ==
  /\ Free(h)
  /\ \E c \in claims, e \in Emails : UpdateMeApp(h, c, e)
  /\ UNCHANGED <<svc, claims, approved>>

Reread(h) ==
  LET c == call[h] IN
  /\ c.pc = "reread"
  /\ GetMeApp(h, [sub |-> c.id, tid |-> c.tenant])
  /\ UNCHANGED <<row, svc, claims, approved>>

ChangePassword(h) ==
  /\ Free(h)
  /\ \E c \in claims, s \in Secrets, n \in Secrets \cup {Null} :
       IF n = Null THEN Answer(h, c.tid, "invalid_argument", {})
       ELSE Proceed(h, At("check", c.sub, c.tid, Null, s, n))
  /\ UNCHANGED <<row, svc, claims, approved>>

CheckPassword(h) ==
  LET c == call[h] IN
  /\ c.pc = "check"
  /\ IF PasswordIs(c.id, c.secret)
     THEN Proceed(h, At("store", c.id, c.tenant, Null, c.secret, c.fresh))
     ELSE Answer(h, c.tenant, "unauthenticated", {})
  /\ UNCHANGED <<row, svc, claims, approved>>

StorePassword(h) ==
  LET c == call[h] IN
  /\ c.pc = "store"
  /\ UpdatePassword(c.id, c.fresh)
  /\ Answer(h, c.tenant, "ok", {})
  /\ UNCHANGED <<svc, claims, approved>>

\* Answered with OK whether or not the row was there.
DeleteMe(h) ==
  /\ Free(h)
  /\ \E c \in claims : DeleteUser(c.sub) /\ Answer(h, c.tid, "ok", {})
  /\ UNCHANGED <<claims, approved>>

-----------------------------------------------------------------------------
\* Service tokens.

\* The foreign keys refuse a caller without a row, the nil UUID included.
IssueApp(h, t, u) ==
  \/ \E k \in ServiceTokens : CreateToken(k, t, u) /\ Answer(h, t, "ok", {k})
  \/ ~Live(u) /\ Answer(h, t, "internal", {}) /\ UNCHANGED svc

IssueServiceToken(h) ==
  /\ Free(h)
  /\ \E c \in claims : IssueApp(h, c.tid, c.sub)
  /\ UNCHANGED <<row, claims, approved>>

ListServiceTokens(h) ==
  /\ Free(h)
  /\ \E c \in claims : Answer(h, c.tid, "ok", ListActiveTokens(c.tid))
  /\ UNCHANGED <<row, svc, claims, approved>>

RevokeServiceToken(h) ==
  /\ Free(h)
  /\ \E c \in claims, k \in ServiceTokens :
       RevokeToken(k, c.tid) /\ Answer(h, c.tid, "ok", {})
  /\ UNCHANGED <<row, claims, approved>>

\* The handler's future is dropped (deadline, crash) or a statement fails.
Abandon(h) ==
  /\ ~Free(h)
  /\ Answer(h, call[h].tenant, "none", {})
  /\ UNCHANGED <<row, svc, claims, approved>>

Next ==
  \/ RefreshClaims
  \/ \E h \in Handlers :
       \/ Register(h) \/ InsertUser(h) \/ ListPendingUsers(h)
       \/ ApproveUser(h) \/ Activate(h) \/ RejectUser(h) \/ Remove(h)
       \/ Login(h) \/ VerifyLogin(h) \/ GrantSession(h)
       \/ GetMe(h) \/ UpdateMe(h) \/ Reread(h) \/ DeleteMe(h)
       \/ ChangePassword(h) \/ CheckPassword(h) \/ StorePassword(h)
       \/ IssueServiceToken(h) \/ ListServiceTokens(h) \/ RevokeServiceToken(h)
       \/ Abandon(h)

Spec == Init /\ [][Next]_vars

-----------------------------------------------------------------------------
\* register checks the email in one statement and inserts in another, and
\* update_me does not check at all: two live accounts of a tenant still never
\* share an email.
EmailUnique ==
  \A u, v \in Users :
    Live(u) /\ Live(v) /\ row[u].tenant = row[v].tenant
      /\ row[u].email = row[v].email => u = v

\* Whatever races with delete_me and reject, a service token belongs to an
\* existing account of its own tenant.
ServiceTokensOwned ==
  \A k \in ServiceTokens :
    Stored(k) => Live(svc[k].creator) /\ row[svc[k].creator].tenant = svc[k].tenant

\* A bearer of an access token that names an account was approved (or is the
\* seeded account): nobody acts between registering and being approved.
ActorsWereApproved ==
  \A c \in claims : c.sub # Null => c.sub \in approved \cup {Seed.id}

\* What a handler returns are rows of the tenant its caller's claims name.
NoForeignRows ==
  \A h \in Handlers :
    /\ \A u \in call[h].got \cap Users :
         Live(u) => row[u].tenant = call[h].tenant
    /\ \A k \in call[h].got \cap ServiceTokens :
         Stored(k) => svc[k].tenant = call[h].tenant

\* The handler h is the only one that may have moved, and its caller's claims
\* name the tenant t.
ActedFor(h, t) ==
  call'[h].tenant = t /\ \A g \in Handlers \ {h} : call'[g] = call[g]

\* A row changes or disappears only in a statement of a handler that was called
\* for the row's tenant, although most statements select by id alone.
TenantsAreIsolated ==
  [][/\ \A u \in Users : Live(u) /\ row'[u] # row[u] =>
          \E h \in Handlers : ActedFor(h, row[u].tenant)
     /\ \A k \in ServiceTokens : Stored(k) /\ svc'[k] # svc[k] =>
          \E h \in Handlers : ActedFor(h, svc[k].tenant)]_vars

\* Once an approval was answered with OK, no reject or approve that starts later
\* gets past its check: only those that read the row before can still act on it.
ApprovalIsFinal ==
  [][\A h \in Handlers :
       Free(h) /\ call'[h].pc \in {"activate", "remove"}
         => call'[h].id \notin approved]_vars
=============================================================================
