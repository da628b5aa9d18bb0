---------------------------- MODULE Accounts_proofs ----------------------------
(***************************************************************************)
(* Proofs about Accounts, for any number of tenants, users, tokens and     *)
(* handlers.                                                               *)
(***************************************************************************)
EXTENDS Accounts, TLAPS

Approved == approved \cup {Seed.id}

\* What a handler holds when it is about to execute a statement.
Holds(c) ==
  /\ c.pc = "insert" => c.tenant \in Tenants /\ c.email \in Emails /\ c.secret \in Secrets
  /\ c.pc \in {"activate", "remove"} => c.id \in Users
  /\ c.pc \in {"verify", "touch"} => c.id \in Users /\ c.tenant \in Tenants
  /\ c.pc \in {"check", "store"} => c.fresh \in Secrets

AllHold == \A h \in Handlers : Holds(call[h])

\* Somebody who signs in or has signed in as u for the tenant t.
Entitled(u, t) ==
  /\ u \in Approved
  /\ row[u] # Null
  /\ Live(u) => row[u].tenant = t

ActiveWereApproved == \A u \in Users : Live(u) /\ row[u].status = "active" => u \in Approved
ClaimsEntitled == \A c \in claims : c.sub # Null => Entitled(c.sub, c.tid)
LoginsEntitled ==
  \A h \in Handlers : call[h].pc \in {"verify", "touch"} =>
    Entitled(call[h].id, call[h].tenant)

AccountsInv ==
  /\ TypeOK /\ AllHold
  /\ ActiveWereApproved /\ ClaimsEntitled /\ LoginsEntitled
  /\ EmailUnique /\ ServiceTokensOwned

-----------------------------------------------------------------------------
\* The statements.
Slot == Row \cup {Null, Gone}

LEMMA LiveRow == ASSUME TypeOK, NEW u, Live(u) PROVE u \in Users /\ row[u] \in Row
BY DEF TypeOK, Live

LEMMA RowFields ==
  ASSUME NEW r \in Row
  PROVE  /\ r.tenant \in Tenants /\ r.email \in Emails /\ r.status \in Statuses
         /\ r.secret \in Secrets
BY DEF Row


\* A row that stays in its tenant, and whose status changes only by approval.
RowUpdated(u) ==
  /\ Live(u) /\ row'[u] \in Row
  /\ row'[u].tenant = row[u].tenant
  /\ row'[u].status = row[u].status \/ (row'[u].status = "active" /\ u \in approved')
OthersKept(u) == row' \in [Users -> Slot] /\ \A v \in Users \ {u} : row'[v] = row[v]

LEMMA UpdateStatusEffect ==
  ASSUME TypeOK, NEW u \in Users, UpdateStatus(u, "active"), u \in approved'
  PROVE  /\ OthersKept(u)
         /\ row'[u] = row[u] \/ (RowUpdated(u) /\ row'[u].email = row[u].email)
<1>1. CASE Live(u)
  <2>1. PICK r \in Row : r = row[u]
    BY <1>1, LiveRow
  <2>2. "active" \in Statuses
    BY DEF Statuses
  <2>3. row' = [row EXCEPT ![u] = [r EXCEPT !.status = "active"]]
    BY <1>1, <2>1 DEF UpdateStatus
  <2>4. /\ [r EXCEPT !.status = "active"] \in Row
        /\ [r EXCEPT !.status = "active"].tenant = r.tenant
        /\ [r EXCEPT !.status = "active"].email = r.email
        /\ [r EXCEPT !.status = "active"].status = "active"
    BY <2>2 DEF Row
  <2>5. PICK q \in Row : q = [r EXCEPT !.status = "active"] /\ q.tenant = r.tenant
                         /\ q.email = r.email /\ q.status = "active"
    BY <2>4
  <2>6. QED
    BY <1>1, <2>1, <2>3, <2>5 DEF OthersKept, RowUpdated, Slot, TypeOK
<1>2. CASE ~Live(u)
  BY <1>2 DEF UpdateStatus, OthersKept, Slot, TypeOK
<1>3. QED
  BY <1>1, <1>2

LEMMA UpdateProfileEffect ==
  ASSUME TypeOK, NEW u, NEW e \in Emails, UpdateProfile(u, e)
  PROVE  /\ OthersKept(u)
         /\ \/ row' = row
            \/ RowUpdated(u) /\ row'[u].email = e
<1>1. CASE Live(u)
  <2>1. PICK r \in Row : r = row[u]
    BY <1>1, LiveRow
  <2>3. row' = [row EXCEPT ![u] = [r EXCEPT !.email = e]]
    BY <1>1, <2>1 DEF UpdateProfile
  <2>4. /\ [r EXCEPT !.email = e] \in Row
        /\ [r EXCEPT !.email = e].tenant = r.tenant
        /\ [r EXCEPT !.email = e].status = r.status
        /\ [r EXCEPT !.email = e].email = e
    BY DEF Row
  <2>5. PICK q \in Row : q = [r EXCEPT !.email = e] /\ q.tenant = r.tenant
                         /\ q.status = r.status /\ q.email = e
    BY <2>4
  <2>6. u \in Users
    BY <1>1 DEF Live
  <2>7. QED
    BY <1>1, <2>1, <2>3, <2>5, <2>6 DEF OthersKept, RowUpdated, Slot, TypeOK
<1>2. CASE ~Live(u)
  BY <1>2 DEF UpdateProfile, OthersKept, Slot, TypeOK
<1>3. QED
  BY <1>1, <1>2

LEMMA UpdatePasswordEffect ==
  ASSUME TypeOK, NEW u, NEW s \in Secrets, UpdatePassword(u, s)
  PROVE  /\ OthersKept(u)
         /\ \/ row' = row
            \/ RowUpdated(u) /\ row'[u].email = row[u].email
<1>1. CASE Live(u)
  <2>1. PICK r \in Row : r = row[u]
    BY <1>1, LiveRow
  <2>3. row' = [row EXCEPT ![u] = [r EXCEPT !.secret = s]]
    BY <1>1, <2>1 DEF UpdatePassword
  <2>4. /\ [r EXCEPT !.secret = s] \in Row
        /\ [r EXCEPT !.secret = s].tenant = r.tenant
        /\ [r EXCEPT !.secret = s].status = r.status
        /\ [r EXCEPT !.secret = s].email = r.email
    BY DEF Row
  <2>5. PICK q \in Row : q = [r EXCEPT !.secret = s] /\ q.tenant = r.tenant
                         /\ q.status = r.status /\ q.email = r.email
    BY <2>4
  <2>6. u \in Users
    BY <1>1 DEF Live
  <2>7. QED
    BY <1>1, <2>1, <2>3, <2>5, <2>6 DEF OthersKept, RowUpdated, Slot, TypeOK
<1>2. CASE ~Live(u)
  BY <1>2 DEF UpdatePassword, OthersKept, Slot, TypeOK
<1>3. QED
  BY <1>1, <1>2

LEMMA CreateUserEffect ==
  ASSUME TypeOK, NEW u \in Users, NEW t \in Tenants, NEW e \in Emails, NEW s \in Secrets,
         CreateUser(u, t, e, s)
  PROVE  /\ OthersKept(u) /\ row[u] = Null
         /\ row'[u] \in Row /\ row'[u].status = "pending"
         /\ row'[u].tenant = t /\ row'[u].email = e
BY DEF CreateUser, OthersKept, Slot, TypeOK, Row, Statuses

LEMMA DeleteUserEffect ==
  ASSUME TypeOK, NEW u, DeleteUser(u)
  PROVE  /\ OthersKept(u)
         /\ Live(u) => row'[u] = Gone
         /\ ~Live(u) => row' = row
         /\ svc' \in [ServiceTokens -> ServiceToken \cup {Null, Gone}]
         /\ \A k \in ServiceTokens :
              svc'[k] = Gone \/ (svc'[k] = svc[k] /\ (Stored(k) => svc[k].creator # u))
<1>1. OthersKept(u) /\ (Live(u) => row'[u] = Gone) /\ (~Live(u) => row' = row)
  BY DEF DeleteUser, OthersKept, Slot, TypeOK, Live
<1>2. svc' \in [ServiceTokens -> ServiceToken \cup {Null, Gone}]
  BY DEF DeleteUser, TypeOK
<1>3. ASSUME NEW k \in ServiceTokens
      PROVE  svc'[k] = Gone \/ (svc'[k] = svc[k] /\ (Stored(k) => svc[k].creator # u))
  <2>1. svc'[k] = IF Stored(k) /\ svc[k].creator = u THEN Gone ELSE svc[k]
    BY DEF DeleteUser
  <2>2. QED
    BY <2>1
<1>4. QED
  BY <1>1, <1>2, <1>3

-----------------------------------------------------------------------------
\* What a step may do to the rows: nobody changes tenant, becomes active without an
\* approval, or comes back.
RowStep ==
  /\ row' \in [Users -> Slot]
  /\ approved \subseteq approved' /\ approved' \subseteq Users
  /\ \A u \in Users :
       \/ row'[u] = row[u]
       \/ row[u] = Null /\ row'[u] \in Row /\ row'[u].status = "pending"
       \/ Live(u) /\ row'[u] = Gone
       \/ RowUpdated(u)

LEMMA ActiveKept == ASSUME TypeOK, ActiveWereApproved, RowStep PROVE ActiveWereApproved'
<1>1. SUFFICES ASSUME NEW u \in Users, row'[u] \notin {Null, Gone}, row'[u].status = "active"
               PROVE  u \in approved' \cup {Seed.id}
  BY DEF ActiveWereApproved, Live, Approved
<1>2. CASE row'[u] = row[u]
  BY <1>1, <1>2 DEF ActiveWereApproved, Live, Approved, RowStep
<1>3. CASE RowUpdated(u)
  BY <1>1, <1>3 DEF ActiveWereApproved, RowUpdated, Live, Approved, RowStep
<1>4. QED
  BY <1>1, <1>2, <1>3 DEF RowStep

LEMMA EntitledKept ==
  ASSUME TypeOK, RowStep, NEW u, NEW t, Entitled(u, t)
  PROVE  Entitled(u, t)'
<1>1. u \in Users /\ u \in approved' \cup {Seed.id}
  BY SeedIsAccount DEF Entitled, Approved, TypeOK, RowStep
<1>2. row'[u] # Null
  BY <1>1, NullsAreNoRows DEF Entitled, RowStep, RowUpdated
<1>3. ASSUME row'[u] \notin {Null, Gone} PROVE row'[u].tenant = t
  BY <1>1, <1>3 DEF Entitled, RowStep, RowUpdated, Live
<1>4. QED
  BY <1>1, <1>2, <1>3 DEF Entitled, Approved, Live

-----------------------------------------------------------------------------
\* What the tables keep, whatever a statement reads before.
ServiceTokensTyped == svc \in [ServiceTokens -> ServiceToken \cup {Null, Gone}]
TableStep == RowStep /\ ServiceTokensTyped' /\ EmailUnique' /\ ServiceTokensOwned'

LEMMA RowsKept == ASSUME TypeOK, UNCHANGED <<row, approved>> PROVE RowStep
BY DEF TypeOK, RowStep, Slot

LEMMA EmailsKept ==
  ASSUME EmailUnique,
         \A u \in Users : row'[u] \notin {Null, Gone} =>
           Live(u) /\ row'[u].tenant = row[u].tenant /\ row'[u].email = row[u].email
  PROVE  EmailUnique'
BY DEF EmailUnique, Live

LEMMA EmailChanged ==
  ASSUME EmailUnique, NEW u \in Users, OthersKept(u), NEW t, NEW e,
         row'[u].tenant = t, row'[u].email = e, ~EmailTaken(u, t, e)
  PROVE  EmailUnique'
<1>1. SUFFICES ASSUME NEW v \in Users, NEW w \in Users,
                      row'[v] \notin {Null, Gone}, row'[w] \notin {Null, Gone},
                      row'[v].tenant = row'[w].tenant, row'[v].email = row'[w].email
               PROVE  v = w
  BY DEF EmailUnique, Live
<1>2. \A x \in Users \ {u} :
        row'[x] \notin {Null, Gone} => row'[x].tenant # t \/ row'[x].email # e
  BY DEF EmailTaken, FindByEmail, OthersKept, Live
<1>3. CASE v = u \/ w = u
  BY <1>1, <1>2, <1>3
<1>4. CASE v # u /\ w # u
  BY <1>1, <1>4 DEF EmailUnique, OthersKept, Live
<1>5. QED
  BY <1>3, <1>4

LEMMA OwnersKept ==
  ASSUME TypeOK, ServiceTokensOwned, RowStep,
         \A u \in Users : Live(u) => row'[u] # Gone,
         \A k \in ServiceTokens : svc'[k] \notin {Null, Gone} =>
           Stored(k) /\ svc'[k].tenant = svc[k].tenant /\ svc'[k].creator = svc[k].creator
  PROVE  ServiceTokensOwned'
<1>1. SUFFICES ASSUME NEW k \in ServiceTokens, svc'[k] \notin {Null, Gone}
               PROVE  /\ svc'[k].creator \in Users
                      /\ row'[svc'[k].creator] \notin {Null, Gone}
                      /\ row'[svc'[k].creator].tenant = svc'[k].tenant
  BY DEF ServiceTokensOwned, Stored, Live
<1>2. PICK u \in Users : u = svc[k].creator /\ Live(u) /\ row[u].tenant = svc[k].tenant
  BY <1>1 DEF ServiceTokensOwned, Stored, Live
<1>3. row'[u] \notin {Null, Gone} /\ row'[u].tenant = row[u].tenant
  BY <1>2, NullsAreNoRows DEF RowStep, RowUpdated, Live
<1>4. QED
  BY <1>1, <1>2, <1>3

LEMMA TablesUnchanged ==
  ASSUME AccountsInv, UNCHANGED <<row, svc, approved>> PROVE TableStep
<1>1. RowStep
  BY RowsKept DEF AccountsInv
<1>2. QED
  BY <1>1 DEF AccountsInv, TypeOK, TableStep, ServiceTokensTyped, EmailUnique,
              ServiceTokensOwned, Live, Stored

LEMMA InsertUserTables ==
  ASSUME AccountsInv, NEW h \in Handlers, InsertUser(h) PROVE TableStep
<1>. DEFINE c == call[h]
<1>1. CASE UNCHANGED row
  BY <1>1, TablesUnchanged DEF InsertUser
<1>2. ASSUME NEW u \in Users, CreateUser(u, c.tenant, c.email, c.secret) PROVE TableStep
  <2>1. /\ OthersKept(u) /\ row[u] = Null
        /\ row'[u] \in Row /\ row'[u].status = "pending"
        /\ row'[u].tenant = c.tenant /\ row'[u].email = c.email
    BY <1>2, CreateUserEffect DEF AccountsInv, AllHold, Holds, InsertUser
  <2>2. RowStep
    BY <2>1 DEF RowStep, OthersKept, InsertUser, AccountsInv, TypeOK
  <2>3. EmailUnique'
    BY <1>2, <2>1, EmailChanged DEF AccountsInv, CreateUser
  <2>4. ServiceTokensOwned'
    <3>1. \A v \in Users : Live(v) => row'[v] # Gone
      BY <2>1, NullsAreNoRows DEF OthersKept, Live
    <3>2. QED
      BY <2>2, <3>1, OwnersKept DEF InsertUser, AccountsInv, Stored
  <2>5. QED
    BY <2>2, <2>3, <2>4 DEF TableStep, InsertUser, ServiceTokensTyped, AccountsInv, TypeOK
<1>3. QED
  BY <1>1, <1>2 DEF InsertUser

LEMMA ActivateTables ==
  ASSUME AccountsInv, NEW h \in Handlers, Activate(h) PROVE TableStep
<1>1. PICK u \in Users : u = call[h].id
  BY DEF Activate, AccountsInv, AllHold, Holds
<1>2. UpdateStatus(u, "active") /\ approved' = approved \cup {u} /\ UNCHANGED svc
  BY <1>1 DEF Activate
<1>3. /\ OthersKept(u)
      /\ row'[u] = row[u] \/ (RowUpdated(u) /\ row'[u].email = row[u].email)
  BY <1>2, UpdateStatusEffect DEF AccountsInv
<1>4. RowStep
  BY <1>2, <1>3 DEF RowStep, OthersKept, AccountsInv, TypeOK
<1>5. EmailUnique'
  BY <1>3, EmailsKept DEF AccountsInv, OthersKept, RowUpdated, Live
<1>6. ServiceTokensOwned'
  <2>1. \A v \in Users : Live(v) => row'[v] # Gone
    BY <1>3, NullsAreNoRows DEF OthersKept, RowUpdated, Live
  <2>2. QED
    BY <1>2, <1>4, <2>1, OwnersKept DEF AccountsInv, Stored
<1>7. QED
  BY <1>2, <1>4, <1>5, <1>6 DEF TableStep, ServiceTokensTyped, AccountsInv, TypeOK

LEMMA DeletionTables ==
  ASSUME AccountsInv, NEW u, DeleteUser(u), UNCHANGED approved PROVE TableStep
<1>1. /\ OthersKept(u) /\ ServiceTokensTyped'
      /\ Live(u) => row'[u] = Gone
      /\ ~Live(u) => row' = row
      /\ \A k \in ServiceTokens :
           svc'[k] = Gone \/ (svc'[k] = svc[k] /\ (Stored(k) => svc[k].creator # u))
  BY DeleteUserEffect DEF AccountsInv, ServiceTokensTyped
<1>2. \A v \in Users : row'[v] = row[v] \/ (v = u /\ Live(v) /\ row'[v] = Gone)
  BY <1>1 DEF OthersKept
<1>3. RowStep
  BY <1>1, <1>2 DEF RowStep, OthersKept, AccountsInv, TypeOK
<1>4. EmailUnique'
  BY <1>2, EmailsKept DEF AccountsInv, Live
<1>5. ServiceTokensOwned'
  <2>1. ASSUME NEW k \in ServiceTokens, svc'[k] \notin {Null, Gone}
        PROVE  /\ svc'[k] = svc[k] /\ Live(svc[k].creator)
               /\ row[svc[k].creator].tenant = svc[k].tenant
               /\ row'[svc[k].creator] = row[svc[k].creator]
    BY <1>1, <1>2, <2>1 DEF AccountsInv, ServiceTokensOwned, Stored, Live
  <2>2. QED
    BY <2>1 DEF ServiceTokensOwned, Stored, Live
<1>6. QED
  BY <1>1, <1>3, <1>4, <1>5 DEF TableStep

LEMMA UpdateMeTables ==
  ASSUME AccountsInv, NEW h \in Handlers, UpdateMe(h) PROVE TableStep
<1>1. PICK c \in claims, e \in Emails : UpdateMeApp(h, c, e) /\ UNCHANGED <<svc, approved>>
  BY DEF UpdateMe
<1>2. CASE UNCHANGED row
  BY <1>1, <1>2, TablesUnchanged
<1>3. CASE ~UNCHANGED row
  <2>1. PICK u : u = c.sub
    OBVIOUS
  <2>2. UpdateProfile(u, e) /\ ~(Live(u) /\ EmailTaken(u, row[u].tenant, e))
    BY <1>1, <1>3, <2>1 DEF UpdateMeApp
  <2>3. OthersKept(u) /\ RowUpdated(u) /\ row'[u].email = e
    BY <1>3, <2>2, UpdateProfileEffect DEF AccountsInv
  <2>4. u \in Users /\ Live(u) /\ ~EmailTaken(u, row[u].tenant, e)
    BY <2>2, <2>3 DEF RowUpdated, Live
  <2>5. RowStep
    BY <1>1, <2>3 DEF RowStep, OthersKept, AccountsInv, TypeOK
  <2>6. EmailUnique'
    BY <2>3, <2>4, EmailChanged DEF AccountsInv, RowUpdated
  <2>7. \A v \in Users : Live(v) => row'[v] # Gone
    BY <2>3, NullsAreNoRows DEF OthersKept, RowUpdated, Live
  <2>8. ServiceTokensOwned'
    BY <1>1, <2>5, <2>7, OwnersKept DEF AccountsInv, Stored
  <2>9. QED
    BY <1>1, <2>5, <2>6, <2>8 DEF TableStep, ServiceTokensTyped, AccountsInv, TypeOK
<1>4. QED
  BY <1>2, <1>3

LEMMA StorePasswordTables ==
  ASSUME AccountsInv, NEW h \in Handlers, StorePassword(h) PROVE TableStep
<1>1. PICK u : u = call[h].id
  OBVIOUS
<1>2. UpdatePassword(u, call[h].fresh) /\ UNCHANGED <<svc, approved>>
  BY <1>1 DEF StorePassword
<1>3. OthersKept(u) /\ (row' = row \/ (RowUpdated(u) /\ row'[u].email = row[u].email))
  BY <1>2, UpdatePasswordEffect DEF AccountsInv, AllHold, Holds, StorePassword
<1>4. CASE row' = row
  BY <1>2, <1>4, TablesUnchanged
<1>5. CASE RowUpdated(u) /\ row'[u].email = row[u].email
  <2>1. RowStep
    BY <1>2, <1>3, <1>5 DEF RowStep, OthersKept, AccountsInv, TypeOK
  <2>2. EmailUnique'
    BY <1>3, <1>5, EmailsKept DEF AccountsInv, OthersKept, RowUpdated, Live
  <2>3. \A v \in Users : Live(v) => row'[v] # Gone
    BY <1>3, <1>5, NullsAreNoRows DEF OthersKept, RowUpdated, Live
  <2>4. ServiceTokensOwned'
    BY <1>2, <2>1, <2>3, OwnersKept DEF AccountsInv, Stored
  <2>5. QED
    BY <1>2, <2>1, <2>2, <2>4 DEF TableStep, ServiceTokensTyped, AccountsInv, TypeOK
<1>6. QED
  BY <1>3, <1>4, <1>5

LEMMA IssueTables ==
  ASSUME AccountsInv, NEW h \in Handlers, IssueServiceToken(h) PROVE TableStep
<1>1. PICK c \in claims : IssueApp(h, c.tid, c.sub) /\ UNCHANGED <<row, approved>>
  BY DEF IssueServiceToken
<1>2. CASE UNCHANGED svc
  BY <1>1, <1>2, TablesUnchanged
<1>3. ASSUME NEW k \in ServiceTokens, CreateToken(k, c.tid, c.sub) PROVE TableStep
  <2>1. PICK u, t : u = c.sub /\ t = c.tid
    OBVIOUS
  <2>2. /\ u \in Users /\ Live(u)
        /\ svc' = [svc EXCEPT ![k] = [tenant |-> t, creator |-> u, revoked |-> FALSE]]
    BY <1>3, <2>1 DEF CreateToken, Live
  <2>3. row[u].tenant = t /\ t \in Tenants
    <3>1. u # Null
      BY <2>2, NullsAreNoRows
    <3>2. Entitled(u, t)
      BY <1>1, <2>1, <3>1 DEF AccountsInv, ClaimsEntitled
    <3>3. QED
      BY <2>2, <3>2, RowFields, LiveRow DEF Entitled, AccountsInv
  <2>4. PICK q \in ServiceToken : /\ q.tenant = t /\ q.creator = u
                                  /\ q = [tenant |-> t, creator |-> u, revoked |-> FALSE]
    BY <2>2, <2>3 DEF ServiceToken
  <2>5. svc' = [svc EXCEPT ![k] = q]
    BY <2>2, <2>4
  <2>6. ServiceTokensTyped'
    BY <2>5 DEF ServiceTokensTyped, AccountsInv, TypeOK
  <2>7. RowStep
    BY <1>1, RowsKept DEF AccountsInv
  <2>8. EmailUnique'
    BY <1>1 DEF AccountsInv, EmailUnique, Live
  <2>9. ServiceTokensOwned'
    <3>1. ASSUME NEW j \in ServiceTokens, svc'[j] \notin {Null, Gone}
          PROVE  svc'[j].creator \in Users /\ Live(svc'[j].creator)
                 /\ row[svc'[j].creator].tenant = svc'[j].tenant
      <4>1. CASE j = k
        BY <2>2, <2>3, <2>4, <2>5, <4>1 DEF AccountsInv, TypeOK
      <4>2. CASE j # k
        BY <2>5, <3>1, <4>2 DEF AccountsInv, TypeOK, ServiceTokensOwned, Stored, Live
      <4>3. QED
        BY <4>1, <4>2
    <3>2. QED
      BY <1>1, <3>1 DEF ServiceTokensOwned, Stored, Live
  <2>10. QED
    BY <2>6, <2>7, <2>8, <2>9 DEF TableStep
<1>4. QED
  BY <1>1, <1>2, <1>3 DEF IssueApp

LEMMA RevokeTables ==
  ASSUME AccountsInv, NEW h \in Handlers, RevokeServiceToken(h) PROVE TableStep
<1>1. PICK c \in claims, k \in ServiceTokens :
        RevokeToken(k, c.tid) /\ UNCHANGED <<row, approved>>
  BY DEF RevokeServiceToken
<1>2. CASE UNCHANGED svc
  BY <1>1, <1>2, TablesUnchanged
<1>3. CASE ~UNCHANGED svc
  <2>1. PICK r \in ServiceToken : r = svc[k] /\ Stored(k)
    BY <1>1, <1>3 DEF RevokeToken, AccountsInv, TypeOK, Stored
  <2>2. /\ [r EXCEPT !.revoked = TRUE] \in ServiceToken
        /\ [r EXCEPT !.revoked = TRUE].tenant = r.tenant
        /\ [r EXCEPT !.revoked = TRUE].creator = r.creator
    BY DEF ServiceToken
  <2>3. PICK q \in ServiceToken : /\ q = [r EXCEPT !.revoked = TRUE]
                                  /\ q.tenant = r.tenant /\ q.creator = r.creator
    BY <2>2
  <2>4. svc' = [svc EXCEPT ![k] = q]
    BY <1>1, <1>3, <2>1, <2>3 DEF RevokeToken
  <2>5. ServiceTokensTyped'
    BY <2>4 DEF ServiceTokensTyped, AccountsInv, TypeOK
  <2>6. RowStep
    BY <1>1, RowsKept DEF AccountsInv
  <2>7. EmailUnique'
    BY <1>1 DEF AccountsInv, EmailUnique, Live
  <2>8. ASSUME NEW j \in ServiceTokens, svc'[j] \notin {Null, Gone}
        PROVE  Stored(j) /\ svc'[j].tenant = svc[j].tenant /\ svc'[j].creator = svc[j].creator
    <3>1. CASE j = k
      BY <2>1, <2>3, <2>4, <3>1 DEF AccountsInv, TypeOK
    <3>2. CASE j # k
      BY <2>4, <2>8, <3>2 DEF AccountsInv, TypeOK, Stored
    <3>3. QED
      BY <3>1, <3>2
  <2>9. ServiceTokensOwned'
    BY <1>1, <2>6, <2>8, OwnersKept DEF AccountsInv, Live
  <2>10. QED
    BY <2>5, <2>6, <2>7, <2>9 DEF TableStep
<1>4. QED
  BY <1>2, <1>3

\* No other action writes a table.
LEMMA TablesStep == ASSUME AccountsInv, [Next]_vars PROVE TableStep
<1>1. CASE RefreshClaims \/ UNCHANGED vars
  BY <1>1, TablesUnchanged DEF RefreshClaims, vars
<1>2. ASSUME NEW h \in Handlers,
             \/ Register(h) \/ ListPendingUsers(h) \/ ApproveUser(h) \/ RejectUser(h)
             \/ Login(h) \/ VerifyLogin(h) \/ GrantSession(h)
             \/ GetMe(h) \/ Reread(h) \/ ChangePassword(h) \/ CheckPassword(h)
             \/ ListServiceTokens(h) \/ Abandon(h)
      PROVE  TableStep
  <2>1. UNCHANGED <<row, svc, approved>>
    BY <1>2 DEF Register, ListPendingUsers, ApproveUser, RejectUser, Login, VerifyLogin,
                GrantSession, GetMe, Reread, ChangePassword, CheckPassword,
                ListServiceTokens, Abandon
  <2>2. QED
    BY <2>1, TablesUnchanged
<1>3. ASSUME NEW h \in Handlers, Remove(h) \/ DeleteMe(h) PROVE TableStep
  <2>1. \E u : DeleteUser(u) /\ UNCHANGED approved
    BY <1>3 DEF Remove, DeleteMe
  <2>2. QED
    BY <2>1, DeletionTables
<1>4. QED
  BY <1>1, <1>2, <1>3, InsertUserTables, ActivateTables, UpdateMeTables,
     StorePasswordTables, IssueTables, RevokeTables DEF Next

-----------------------------------------------------------------------------
\* What handlers hold after a step.
NewCall(c) ==
  /\ c \in Call /\ Holds(c)
  /\ c.pc \in {"verify", "touch"} => Entitled(c.id, c.tenant)

CallStep ==
  /\ call' \in [Handlers -> Call]
  /\ \A g \in Handlers : call'[g] = call[g] \/ NewCall(call'[g])

Pcs == {"insert", "activate", "remove", "verify", "touch", "check", "store", "reread"}
Tenant == Tenants \cup {Null}
Returned == SUBSET (Users \cup ServiceTokens)

LEMMA RestIsCall ==
  ASSUME NEW t \in Tenant, NEW code, NEW got \in Returned
  PROVE  NewCall(Rest(t, code, got))
<1>1. PICK B : B = BOOLEAN
  OBVIOUS
<1>2. PICK b \in B : b = (code = "ok")
  BY <1>1
<1>3. Rest(t, code, got) = [pc |-> "rest", id |-> Null, tenant |-> t, email |-> Null,
                            secret |-> Null, fresh |-> Null, ok |-> b, got |-> got]
  BY <1>2 DEF Rest
<1>4. /\ Rest(t, code, got) \in
           [pc : {"rest"}, id : {Null}, tenant : Tenant, email : {Null},
            secret : {Null}, fresh : {Null}, ok : B, got : Returned]
      /\ Rest(t, code, got).pc = "rest"
  BY <1>2, <1>3
<1>5. Rest(t, code, got) \in Call
  BY <1>1, <1>4, Zenon DEF Call, Tenant, Returned
<1>6. QED
  BY <1>4, <1>5 DEF NewCall, Holds

LEMMA CallFields ==
  ASSUME AccountsInv, NEW h \in Handlers
  PROVE  /\ call[h].id \in Users \cup {Null} /\ call[h].tenant \in Tenant
         /\ call[h].email \in Emails \cup {Null} /\ call[h].secret \in Secrets \cup {Null}
         /\ call[h].fresh \in Secrets \cup {Null}
<1>1. call[h] \in Call
  BY DEF AccountsInv, TypeOK
<1>2. QED
  BY <1>1 DEF Call, Tenant

LEMMA AnswerStep ==
  ASSUME TypeOK, NEW h \in Handlers, NEW t \in Tenant, NEW code, NEW got \in Returned,
         Answer(h, t, code, got)
  PROVE  CallStep
<1>1. PICK c \in Call : c = Rest(t, code, got) /\ NewCall(c)
  BY RestIsCall DEF NewCall
<1>2. call' = [call EXCEPT ![h] = c]
  BY <1>1 DEF Answer
<1>3. QED
  BY <1>1, <1>2 DEF CallStep, TypeOK

LEMMA ProceedStep ==
  ASSUME TypeOK, NEW h \in Handlers, NEW c, NewCall(c), Proceed(h, c)
  PROVE  CallStep
BY DEF CallStep, TypeOK, Proceed, NewCall

LEMMA ClaimFields ==
  ASSUME AccountsInv, NEW c \in claims
  PROVE  /\ c.sub \in Users \cup {Null} /\ c.tid \in Tenant
         /\ c.sub # Null => c.sub \in Users /\ c.tid \in Tenants /\ Entitled(c.sub, c.tid)
<1>1. c \in Claims
  BY DEF AccountsInv, TypeOK
<1>2. QED
  BY <1>1 DEF Claims, Tenant, AccountsInv, ClaimsEntitled

LEMMA NoRows == {} \in Returned
BY DEF Returned

LEMMA ProceedAt ==
  ASSUME TypeOK, NEW h \in Handlers,
         NEW pc \in Pcs, NEW u \in Users \cup {Null}, NEW t \in Tenant,
         NEW e \in Emails \cup {Null}, NEW s \in Secrets \cup {Null},
         NEW n \in Secrets \cup {Null},
         Proceed(h, At(pc, u, t, e, s, n)),
         pc = "insert" => t \in Tenants /\ e \in Emails /\ s \in Secrets,
         pc \in {"activate", "remove"} => u \in Users,
         pc \in {"verify", "touch"} => u \in Users /\ t \in Tenants /\ Entitled(u, t),
         pc \in {"check", "store"} => n \in Secrets
  PROVE  CallStep
<1>1. PICK c : c = At(pc, u, t, e, s, n)
  OBVIOUS
<1>2. /\ c \in Call
      /\ c.pc = pc /\ c.id = u /\ c.tenant = t /\ c.email = e /\ c.secret = s /\ c.fresh = n
  BY <1>1 DEF At, Call, Tenant, Pcs
<1>3. NewCall(c)
  BY <1>2 DEF NewCall, Holds
<1>4. QED
  BY <1>1, <1>3, ProceedStep

\* Handlers that only read: what they found entitles a sign-in.
LEMMA RegisterCall ==
  ASSUME AccountsInv, NEW h \in Handlers, Register(h) PROVE CallStep
<1>1. PICK t \in Tenants, e \in Emails, s \in Secrets \cup {Null} : RegisterApp(h, t, e, s)
  BY DEF Register
<1>2. TypeOK /\ t \in Tenant /\ Null \in Users \cup {Null} /\ Null \in Secrets \cup {Null}
  BY DEF AccountsInv, Tenant
<1>3. CASE s = Null \/ FindByEmail(t, e) # {}
  BY <1>1, <1>2, <1>3, NoRows, AnswerStep DEF RegisterApp
<1>4. CASE s # Null /\ FindByEmail(t, e) = {}
  <2>1. Proceed(h, At("insert", Null, t, e, s, Null)) /\ "insert" \in Pcs
    BY <1>1, <1>4 DEF RegisterApp, Pcs
  <2>2. QED
    BY <1>2, <1>4, <2>1, ProceedAt
<1>5. QED
  BY <1>3, <1>4

LEMMA DecisionCall ==
  ASSUME AccountsInv, NEW h \in Handlers, ApproveUser(h) \/ RejectUser(h) PROVE CallStep
<1>1. PICK c \in claims, u \in Users : Approve(h, c.tid, u) \/ Reject(h, c.tid, u)
  BY DEF ApproveUser, RejectUser
<1>2. PICK t \in Tenant : t = c.tid
  BY ClaimFields
<1>3. /\ TypeOK /\ Null \in Emails \cup {Null} /\ Null \in Secrets \cup {Null}
      /\ "activate" \in Pcs /\ "remove" \in Pcs
  BY DEF AccountsInv, Pcs
<1>4. CASE Refusal(t, u) # "none"
  BY <1>1, <1>2, <1>3, <1>4, NoRows, AnswerStep DEF Approve, Reject
<1>5. CASE Refusal(t, u) = "none"
  <2>1. \/ Proceed(h, At("activate", u, t, Null, Null, Null))
        \/ Proceed(h, At("remove", u, t, Null, Null, Null))
    BY <1>1, <1>2, <1>5 DEF Approve, Reject
  <2>2. QED
    BY <1>3, <2>1, ProceedAt
<1>6. QED
  BY <1>4, <1>5

LEMMA FoundIsEntitled ==
  ASSUME AccountsInv, NEW t, NEW e, NEW u \in FindByEmail(t, e),
         row[u].status # "pending"
  PROVE  Entitled(u, t)
<1>1. u \in Users /\ Live(u) /\ row[u].tenant = t /\ row[u].status \in Statuses
  BY RowFields, LiveRow DEF FindByEmail, AccountsInv
<1>2. QED
  BY <1>1 DEF Statuses, Entitled, Live, AccountsInv, ActiveWereApproved

LEMMA LoginCall ==
  ASSUME AccountsInv, NEW h \in Handlers, Login(h) PROVE CallStep
<1>1. PICK t \in Tenants, e \in Emails, s \in Secrets : Proceed(h, LoginPassword(t, e, s))
  BY DEF Login
<1>2. /\ TypeOK /\ t \in Tenant /\ Null \in Emails \cup {Null} /\ Null \in Secrets \cup {Null}
      /\ "verify" \in Pcs
  BY DEF AccountsInv, Pcs, Tenant
<1>3. ASSUME NEW code, Proceed(h, Rest(t, code, {})) PROVE CallStep
  <2>1. Answer(h, t, code, {})
    BY <1>3 DEF Proceed, Answer
  <2>2. QED
    BY <1>2, <2>1, NoRows, AnswerStep
<1>4. CASE FindByEmail(t, e) = {}
  BY <1>1, <1>3, <1>4 DEF LoginPassword
<1>5. CASE FindByEmail(t, e) # {}
  <2>1. PICK u \in FindByEmail(t, e) : u = CHOOSE v \in FindByEmail(t, e) : TRUE
    BY <1>5
  <2>2. u \in Users
    BY DEF FindByEmail
  <2>3. CASE row[u].status = "pending"
    BY <1>1, <1>3, <1>5, <2>1, <2>3 DEF LoginPassword
  <2>4. CASE row[u].status # "pending"
    <3>1. Proceed(h, At("verify", u, t, Null, s, Null))
      BY <1>1, <1>5, <2>1, <2>4 DEF LoginPassword
    <3>2. Entitled(u, t)
      BY <2>4, FoundIsEntitled
    <3>3. QED
      BY <1>2, <2>2, <3>1, <3>2, ProceedAt
  <2>5. QED
    BY <2>3, <2>4
<1>6. QED
  BY <1>4, <1>5

\* The later statements go on with what the handler holds.
LEMMA VerifyCall ==
  ASSUME AccountsInv, NEW h \in Handlers, VerifyLogin(h) PROVE CallStep
<1>1. PICK u, t : u = call[h].id /\ t = call[h].tenant
  OBVIOUS
<1>2. /\ TypeOK /\ t \in Tenant /\ Null \in Emails \cup {Null} /\ Null \in Secrets \cup {Null}
      /\ "touch" \in Pcs
      /\ u \in Users /\ t \in Tenants /\ Entitled(u, t)
  BY <1>1, CallFields
  DEF AccountsInv, Pcs, AllHold, Holds, LoginsEntitled, VerifyLogin
<1>3. \/ Answer(h, t, "unauthenticated", {})
      \/ Proceed(h, At("touch", u, t, Null, Null, Null))
  BY <1>1 DEF VerifyLogin
<1>4. CASE Answer(h, t, "unauthenticated", {})
  BY <1>2, <1>4, NoRows, AnswerStep
<1>5. CASE Proceed(h, At("touch", u, t, Null, Null, Null))
  BY <1>2, <1>5, ProceedAt
<1>6. QED
  BY <1>3, <1>4, <1>5

LEMMA CheckCall ==
  ASSUME AccountsInv, NEW h \in Handlers, CheckPassword(h) PROVE CallStep
<1>1. PICK u, t, s, n : /\ u = call[h].id /\ t = call[h].tenant
                        /\ s = call[h].secret /\ n = call[h].fresh
  OBVIOUS
<1>2. /\ TypeOK /\ t \in Tenant /\ Null \in Emails \cup {Null} /\ "store" \in Pcs
      /\ u \in Users \cup {Null} /\ s \in Secrets \cup {Null} /\ n \in Secrets
  BY <1>1, CallFields DEF AccountsInv, Pcs, AllHold, Holds, CheckPassword
<1>3. \/ Answer(h, t, "unauthenticated", {})
      \/ Proceed(h, At("store", u, t, Null, s, n))
  BY <1>1 DEF CheckPassword
<1>4. CASE Answer(h, t, "unauthenticated", {})
  BY <1>2, <1>4, NoRows, AnswerStep
<1>5. CASE Proceed(h, At("store", u, t, Null, s, n))
  BY <1>2, <1>5, ProceedAt
<1>6. QED
  BY <1>3, <1>4, <1>5

LEMMA ChangeCall ==
  ASSUME AccountsInv, NEW h \in Handlers, ChangePassword(h) PROVE CallStep
<1>1. PICK c \in claims, s \in Secrets, n \in Secrets \cup {Null} :
        IF n = Null THEN Answer(h, c.tid, "invalid_argument", {})
        ELSE Proceed(h, At("check", c.sub, c.tid, Null, s, n))
  BY DEF ChangePassword
<1>2. PICK u \in Users \cup {Null}, t \in Tenant : u = c.sub /\ t = c.tid
  BY ClaimFields
<1>3. TypeOK /\ Null \in Emails \cup {Null} /\ "check" \in Pcs
  BY DEF AccountsInv, Pcs
<1>4. CASE n = Null
  BY <1>1, <1>2, <1>3, <1>4, NoRows, AnswerStep
<1>5. CASE n # Null
  <2>1. Proceed(h, At("check", u, t, Null, s, n)) /\ n \in Secrets
    BY <1>1, <1>2, <1>5
  <2>2. QED
    BY <1>2, <1>3, <2>1, ProceedAt
<1>6. QED
  BY <1>4, <1>5

LEMMA UpdateMeCall ==
  ASSUME AccountsInv, NEW h \in Handlers, UpdateMe(h) PROVE CallStep
<1>1. PICK c \in claims, e \in Emails : UpdateMeApp(h, c, e)
  BY DEF UpdateMe
<1>2. PICK u \in Users \cup {Null}, t \in Tenant : u = c.sub /\ t = c.tid
  BY ClaimFields
<1>3. /\ TypeOK /\ Null \in Emails \cup {Null} /\ Null \in Secrets \cup {Null}
      /\ "reread" \in Pcs
  BY DEF AccountsInv, Pcs
<1>4. \/ Answer(h, t, "internal", {})
      \/ Proceed(h, At("reread", u, t, Null, Null, Null))
  BY <1>1, <1>2 DEF UpdateMeApp
<1>5. CASE Answer(h, t, "internal", {})
  BY <1>2, <1>3, <1>5, NoRows, AnswerStep
<1>6. CASE Proceed(h, At("reread", u, t, Null, Null, Null))
  BY <1>2, <1>3, <1>6, ProceedAt
<1>7. QED
  BY <1>4, <1>5, <1>6

\* All other handlers answer.
LEMMA OtherCalls ==
  ASSUME AccountsInv, NEW h \in Handlers,
         \/ InsertUser(h) \/ Activate(h) \/ Remove(h) \/ GrantSession(h)
         \/ StorePassword(h) \/ Abandon(h) \/ Reread(h)
         \/ ListPendingUsers(h) \/ GetMe(h) \/ DeleteMe(h) \/ IssueServiceToken(h)
         \/ ListServiceTokens(h) \/ RevokeServiceToken(h)
  PROVE  CallStep
<1>1. /\ TypeOK /\ call[h].tenant \in Tenant
      /\ \A c \in claims : c.tid \in Tenant
      /\ \A u : FindById(u) \in Returned
      /\ \A t : ListPendingRows(t) \in Returned /\ ListActiveTokens(t) \in Returned
      /\ \A k \in ServiceTokens : {k} \in Returned
  BY CallFields, ClaimFields
  DEF AccountsInv, Returned, FindById, ListPendingRows, ListActiveTokens, Live
<1>2. CASE \/ InsertUser(h) \/ Activate(h) \/ Remove(h) \/ GrantSession(h)
           \/ StorePassword(h) \/ Abandon(h)
  <2>1. \E code : Answer(h, call[h].tenant, code, {})
    BY <1>2 DEF InsertUser, Activate, Remove, GrantSession, StorePassword, Abandon
  <2>2. QED
    BY <1>1, <2>1, NoRows, AnswerStep
<1>3. CASE Reread(h)
  <2>1. \/ Answer(h, call[h].tenant, "not_found", {})
        \/ Answer(h, call[h].tenant, "ok", FindById(call[h].id))
    BY <1>3 DEF Reread, GetMeApp
  <2>2. QED
    BY <1>1, <2>1, NoRows, AnswerStep
<1>4. CASE \/ ListPendingUsers(h) \/ GetMe(h) \/ DeleteMe(h) \/ IssueServiceToken(h)
           \/ ListServiceTokens(h) \/ RevokeServiceToken(h)
  <2>1. \E c \in claims, got \in Returned : \E code : Answer(h, c.tid, code, got)
    <3>1. CASE ListPendingUsers(h)
      BY <1>1, <3>1 DEF ListPendingUsers
    <3>2. CASE GetMe(h)
      BY <1>1, <3>2, NoRows DEF GetMe, GetMeApp
    <3>3. CASE DeleteMe(h) \/ RevokeServiceToken(h)
      BY <3>3, NoRows DEF DeleteMe, RevokeServiceToken
    <3>4. CASE IssueServiceToken(h)
      BY <1>1, <3>4, NoRows DEF IssueServiceToken, IssueApp
    <3>5. CASE ListServiceTokens(h)
      BY <1>1, <3>5 DEF ListServiceTokens
    <3>6. QED
      BY <1>4, <3>1, <3>2, <3>3, <3>4, <3>5
  <2>2. QED
    BY <1>1, <2>1, AnswerStep
<1>5. QED
  BY <1>2, <1>3, <1>4

LEMMA CallsStep == ASSUME AccountsInv, [Next]_vars PROVE CallStep
<1>1. CASE UNCHANGED call
  BY <1>1 DEF CallStep, AccountsInv, TypeOK
<1>2. QED
  BY <1>1, RegisterCall, DecisionCall, LoginCall, VerifyCall, CheckCall, ChangeCall,
     UpdateMeCall, OtherCalls DEF Next, RefreshClaims, vars

-----------------------------------------------------------------------------
\* Claims are given to nobody but who may sign in.
ClaimsStep ==
  /\ claims' \subseteq Claims
  /\ \A c \in claims' : c \in claims \/ c.sub = Null \/ Entitled(c.sub, c.tid)

LEMMA ClaimsGrow == ASSUME AccountsInv, [Next]_vars PROVE ClaimsStep
<1>1. CASE UNCHANGED claims
  BY <1>1 DEF ClaimsStep, AccountsInv, TypeOK
<1>2. CASE RefreshClaims
  <2>1. NilClaims \in Claims /\ NilClaims.sub = Null
    BY DEF NilClaims, Claims
  <2>2. QED
    BY <1>2, <2>1 DEF ClaimsStep, AccountsInv, TypeOK, RefreshClaims
<1>3. ASSUME NEW h \in Handlers, GrantSession(h), ~UNCHANGED claims PROVE ClaimsStep
  <2>1. PICK u, t : u = call[h].id /\ t = call[h].tenant
    OBVIOUS
  <2>2. /\ u \in Users /\ t \in Tenants /\ Entitled(u, t)
        /\ claims' = claims \cup {[sub |-> u, tid |-> t]}
    BY <1>3, <2>1 DEF GrantSession, AccountsInv, AllHold, Holds, LoginsEntitled
  <2>3. PICK c : c = [sub |-> u, tid |-> t]
    OBVIOUS
  <2>4. c \in Claims /\ c.sub = u /\ c.tid = t
    BY <2>2, <2>3 DEF Claims
  <2>5. QED
    BY <2>2, <2>3, <2>4 DEF ClaimsStep, AccountsInv, TypeOK
<1>4. QED
  BY <1>1, <1>2, <1>3
  DEF Next, vars, Register, InsertUser, ListPendingUsers, ApproveUser, Activate, RejectUser,
      Remove, Login, VerifyLogin, GetMe, UpdateMe, Reread, DeleteMe, ChangePassword,
      CheckPassword, StorePassword, IssueServiceToken, ListServiceTokens,
      RevokeServiceToken, Abandon

LEMMA InitAccountsInv == Init => AccountsInv
<1>. SUFFICES ASSUME Init PROVE AccountsInv
  OBVIOUS
<1>1. PICK seeded \in Row :
        /\ seeded = [tenant |-> Seed.tenant, email |-> Seed.email,
                     status |-> "active", secret |-> Seed.secret]
  BY SeedIsAccount DEF Row, Statuses
<1>2. row = [u \in Users |-> IF u = Seed.id THEN seeded ELSE Null]
  BY <1>1 DEF Init
<1>3. \A u \in Users : Live(u) => u = Seed.id
  BY <1>2 DEF Live
<1>4. \A h \in Handlers : NewCall(call[h]) /\ call[h].pc = "rest"
  <2>1. PICK c : c = Rest(Null, "none", {})
    OBVIOUS
  <2>2. NewCall(c) /\ c.pc = "rest"
    BY <2>1, RestIsCall, NoRows DEF Tenant, Rest
  <2>3. QED
    BY <2>1, <2>2 DEF Init
<1>5. TypeOK
  BY <1>2, <1>4 DEF Init, TypeOK, NewCall
<1>6. AllHold /\ LoginsEntitled
  BY <1>4 DEF NewCall, AllHold, LoginsEntitled
<1>7. ActiveWereApproved /\ ClaimsEntitled /\ EmailUnique
  BY <1>3 DEF Init, ActiveWereApproved, Approved, ClaimsEntitled, EmailUnique
<1>8. ServiceTokensOwned
  BY DEF Init, ServiceTokensOwned, Stored
<1>9. QED
  BY <1>5, <1>6, <1>7, <1>8 DEF AccountsInv

-----------------------------------------------------------------------------
\* The inductive invariant of the accounts.
THEOREM AccountsInvariant == Spec => []AccountsInv
<1>1. ASSUME AccountsInv, [Next]_vars PROVE AccountsInv'
  <2>1. TableStep /\ CallStep /\ ClaimsStep
    BY <1>1, TablesStep, CallsStep, ClaimsGrow
  <2>2. TypeOK'
    BY <2>1 DEF TypeOK, TableStep, RowStep, Slot, ServiceTokensTyped, CallStep, ClaimsStep
  <2>3. ActiveWereApproved'
    BY <1>1, <2>1, ActiveKept DEF AccountsInv, TableStep
  <2>4. \A u, t : Entitled(u, t) => Entitled(u, t)'
    BY <1>1, <2>1, EntitledKept DEF AccountsInv, TableStep
  <2>5. ASSUME NEW g \in Handlers
        PROVE  Holds(call'[g])
               /\ (call'[g].pc \in {"verify", "touch"} =>
                     Entitled(call'[g].id, call'[g].tenant))
    BY <1>1, <2>1 DEF AccountsInv, AllHold, LoginsEntitled, CallStep, NewCall
  <2>6. AllHold'
    BY <2>5 DEF AllHold, Holds
  <2>7. LoginsEntitled'
    <3>1. SUFFICES ASSUME NEW g \in Handlers, call'[g].pc \in {"verify", "touch"}
                   PROVE  Entitled(call[g].id, call[g].tenant)'
      BY DEF LoginsEntitled
    <3>2. PICK u, t : u = call'[g].id /\ t = call'[g].tenant
      OBVIOUS
    <3>3. Entitled(u, t)'
      BY <2>4, <2>5, <3>1, <3>2
    <3>4. QED
      BY <3>2, <3>3 DEF Entitled, Live, Approved
  <2>8. ClaimsEntitled'
    <3>1. SUFFICES ASSUME NEW c \in claims', c.sub # Null PROVE Entitled(c.sub, c.tid)'
      BY DEF ClaimsEntitled
    <3>2. Entitled(c.sub, c.tid)
      BY <1>1, <2>1, <3>1 DEF ClaimsStep, AccountsInv, ClaimsEntitled
    <3>3. QED
      BY <2>4, <3>2
  <2>9. QED
    BY <2>1, <2>2, <2>3, <2>6, <2>7, <2>8 DEF AccountsInv, TableStep
<1>2. QED
  BY <1>1, InitAccountsInv, PTL DEF Spec

\* Every reachable state is well typed: rows have a tenant and a known status, and
\* handlers hold what their next statement needs.
THEOREM AccountsTypes == Spec => []TypeOK
<1>1. AccountsInv => TypeOK
  BY DEF AccountsInv
<1>2. QED
  BY <1>1, AccountsInvariant, PTL

\* Two accounts of a tenant never share an email, however registrations and profile
\* updates overlap.
THEOREM EmailsAreUnique == Spec => []EmailUnique
<1>1. AccountsInv => EmailUnique
  BY DEF AccountsInv
<1>2. QED
  BY <1>1, AccountsInvariant, PTL

\* A service token belongs to an existing account of its own tenant, whatever races
\* with the deletion of its creator.
THEOREM TokensHaveOwners == Spec => []ServiceTokensOwned
<1>1. AccountsInv => ServiceTokensOwned
  BY DEF AccountsInv
<1>2. QED
  BY <1>1, AccountsInvariant, PTL

\* Whoever holds an access token that names an account was approved.
THEOREM NobodyActsUnapproved == Spec => []ActorsWereApproved
<1>1. AccountsInv => ActorsWereApproved
  BY DEF AccountsInv, ClaimsEntitled, Entitled, Approved, ActorsWereApproved
<1>2. QED
  BY <1>1, AccountsInvariant, PTL
-----------------------------------------------------------------------------
\* Every handler works for one tenant: the account it goes on with and the rows it
\* returned are of that tenant, or deleted.
Fits(u, t) == u # Null => u \in Users /\ row[u] # Null /\ (Live(u) => row[u].tenant = t)
TokenFits(k, t) == svc[k] # Null /\ (Stored(k) => svc[k].tenant = t)

Own(c) ==
  /\ Fits(c.id, c.tenant)
  /\ \A u \in c.got \cap Users : Fits(u, c.tenant)
  /\ \A k \in c.got \cap ServiceTokens : TokenFits(k, c.tenant)

OwnTenant == \A h \in Handlers : Own(call[h])

\* An approval that was answered with OK stays.
ApprovedAreActive ==
  \A u \in approved : row[u] # Null /\ (Live(u) => row[u].status = "active")

TenantInv == AccountsInv /\ OwnTenant /\ ApprovedAreActive

\* Rows and tokens never come back, and never move to another tenant.
SvcStep ==
  \A k \in ServiceTokens : svc[k] # Null =>
    /\ svc'[k] # Null
    /\ svc'[k] \notin {Null, Gone} => Stored(k) /\ svc'[k].tenant = svc[k].tenant

LEMMA FitsKept ==
  ASSUME RowStep, NEW u, NEW t, Fits(u, t)
  PROVE  Fits(u, t)'
BY NullsAreNoRows DEF Fits, RowStep, RowUpdated, Live

LEMMA TokenFitsKept ==
  ASSUME SvcStep, NEW k \in ServiceTokens, NEW t, TokenFits(k, t)
  PROVE  TokenFits(k, t)'
BY DEF TokenFits, SvcStep, Stored

LEMMA OwnKept ==
  ASSUME RowStep, SvcStep, NEW c, Own(c)
  PROVE  Own(c)'
<1>1. Fits(c.id, c.tenant)'
  <2>1. PICK u, t : u = c.id /\ t = c.tenant
    OBVIOUS
  <2>2. Fits(u, t)'
    BY <2>1, FitsKept DEF Own
  <2>3. QED
    BY <2>1, <2>2
<1>2. ASSUME NEW u \in c.got \cap Users PROVE Fits(u, c.tenant)'
  <2>1. PICK t : t = c.tenant
    OBVIOUS
  <2>2. Fits(u, t)'
    BY <2>1, FitsKept DEF Own
  <2>3. QED
    BY <2>1, <2>2
<1>3. ASSUME NEW k \in c.got \cap ServiceTokens PROVE TokenFits(k, c.tenant)'
  <2>1. PICK t : t = c.tenant
    OBVIOUS
  <2>2. TokenFits(k, t)'
    BY <2>1, TokenFitsKept DEF Own
  <2>3. QED
    BY <2>1, <2>2
<1>4. QED
  BY <1>1, <1>2, <1>3 DEF Own
\* What a step for the tenant t may do to the tables.
TablesFor(t) ==
  /\ SvcStep
  /\ \A u \in Users : Live(u) /\ row'[u] # row[u] => row[u].tenant = t
  /\ \A k \in ServiceTokens : Stored(k) /\ svc'[k] # svc[k] => svc[k].tenant = t

\* A step of the handler h, after which it holds c.
StepFor(h, c) ==
  /\ call' = [call EXCEPT ![h] = c]
  /\ Own(c) \/ Own(c)'
  /\ c.pc \in {"activate", "remove"} => c.id \notin approved
  /\ TablesFor(c.tenant)

LEMMA NoTables == ASSUME UNCHANGED <<row, svc>>, NEW t PROVE TablesFor(t)
BY DEF TablesFor, SvcStep, Stored

LEMMA RowFor ==
  ASSUME UNCHANGED svc, NEW u, NEW t, Fits(u, t), u # Null \/ row' = row,
         OthersKept(u) \/ row' = row
  PROVE  TablesFor(t)
<1>1. SvcStep /\ \A k \in ServiceTokens : svc'[k] = svc[k]
  BY DEF SvcStep, Stored
<1>2. ASSUME NEW v \in Users, Live(v), row'[v] # row[v] PROVE row[v].tenant = t
  BY <1>2 DEF OthersKept, Fits
<1>3. QED
  BY <1>1, <1>2 DEF TablesFor

LEMMA DeletionFor ==
  ASSUME AccountsInv, NEW u, NEW t, Fits(u, t), DeleteUser(u)
  PROVE  TablesFor(t)
<1>1. /\ OthersKept(u)
      /\ ~Live(u) => row' = row
  BY DeleteUserEffect DEF AccountsInv
<1>2. ASSUME NEW v \in Users, Live(v), row'[v] # row[v] PROVE row[v].tenant = t
  <2>1. v = u
    BY <1>1, <1>2 DEF OthersKept
  <2>2. QED
    BY <1>2, <2>1, NullsAreNoRows DEF Fits
<1>3. ASSUME NEW k \in ServiceTokens
      PROVE  svc'[k] = IF Stored(k) /\ svc[k].creator = u THEN Gone ELSE svc[k]
  BY DEF DeleteUser
<1>4. SvcStep
  BY <1>3, NullsAreNoRows DEF SvcStep, Stored
<1>5. ASSUME NEW k \in ServiceTokens, Stored(k), svc'[k] # svc[k] PROVE svc[k].tenant = t
  <2>1. svc[k].creator = u
    BY <1>3, <1>5
  <2>2. Live(u) /\ row[u].tenant = svc[k].tenant
    BY <1>5, <2>1 DEF AccountsInv, ServiceTokensOwned
  <2>3. QED
    BY <2>2, NullsAreNoRows DEF Fits, Live
<1>6. QED
  BY <1>2, <1>4, <1>5 DEF TablesFor

LEMMA RevokeFor ==
  ASSUME AccountsInv, NEW k \in ServiceTokens, NEW t, RevokeToken(k, t), UNCHANGED row
  PROVE  TablesFor(t)
<1>1. CASE ~(Stored(k) /\ svc[k].tenant = t)
  BY <1>1, NoTables DEF RevokeToken
<1>2. CASE Stored(k) /\ svc[k].tenant = t
  <2>1. PICK r \in ServiceToken : r = svc[k]
    BY <1>2 DEF AccountsInv, TypeOK, Stored
  <2>2. /\ [r EXCEPT !.revoked = TRUE] \in ServiceToken
        /\ [r EXCEPT !.revoked = TRUE].tenant = r.tenant
    BY DEF ServiceToken
  <2>3. PICK q \in ServiceToken : q = [r EXCEPT !.revoked = TRUE] /\ q.tenant = r.tenant
    BY <2>2
  <2>4. svc' = [svc EXCEPT ![k] = q]
    BY <1>2, <2>1, <2>3 DEF RevokeToken
  <2>5. svc'[k] = q /\ \A j \in ServiceTokens \ {k} : svc'[j] = svc[j]
    BY <2>4 DEF AccountsInv, TypeOK
  <2>6. SvcStep
    BY <1>2, <2>1, <2>3, <2>5, NullsAreNoRows DEF SvcStep, Stored
  <2>7. QED
    BY <1>2, <2>5, <2>6 DEF TablesFor
<1>3. QED
  BY <1>1, <1>2

LEMMA CreateFor ==
  ASSUME AccountsInv, NEW k \in ServiceTokens, NEW t, NEW u, CreateToken(k, t, u),
         t \in Tenants, UNCHANGED row
  PROVE  TablesFor(t) /\ TokenFits(k, t)'
<1>1. PICK q : q = [tenant |-> t, creator |-> u, revoked |-> FALSE]
  OBVIOUS
<1>2. q \in ServiceToken /\ q.tenant = t
  BY <1>1 DEF ServiceToken, CreateToken, Live
<1>3. svc[k] = Null /\ svc'[k] = q /\ \A j \in ServiceTokens \ {k} : svc'[j] = svc[j]
  BY <1>1 DEF CreateToken, AccountsInv, TypeOK
<1>4. TokenFits(k, t)'
  BY <1>2, <1>3, NullsAreNoRows DEF TokenFits, Stored
<1>5. SvcStep
  BY <1>3 DEF SvcStep, Stored
<1>6. QED
  BY <1>3, <1>4, <1>5 DEF TablesFor, Stored
LEMMA RestHolds ==
  ASSUME NEW t, NEW code, NEW got, NEW c, c = Rest(t, code, got)
  PROVE  c.pc = "rest" /\ c.id = Null /\ c.tenant = t /\ c.got = got
<1>1. PICK ok : ok = (code = "ok")
  OBVIOUS
<1>2. c = [pc |-> "rest", id |-> Null, tenant |-> t, email |-> Null,
           secret |-> Null, fresh |-> Null, ok |-> ok, got |-> got]
  BY <1>1 DEF Rest
<1>3. QED
  BY <1>2

LEMMA AnsweredFor ==
  ASSUME NEW h, NEW t, NEW code, NEW got, Answer(h, t, code, got), TablesFor(t),
         \A u \in got \cap Users : Fits(u, t),
         \A k \in got \cap ServiceTokens : TokenFits(k, t)
  PROVE  \E c : StepFor(h, c)
<1>1. PICK c : c = Rest(t, code, got)
  OBVIOUS
<1>2. c.pc = "rest" /\ c.id = Null /\ c.tenant = t /\ c.got = got
  BY <1>1, RestHolds
<1>3. Own(c)
  BY <1>2 DEF Own, Fits
<1>4. QED
  BY <1>1, <1>2, <1>3 DEF StepFor, Answer

LEMMA AnsweredNothing ==
  ASSUME NEW h, NEW t, NEW code, Answer(h, t, code, {}), TablesFor(t)
  PROVE  \E c : StepFor(h, c)
BY AnsweredFor

LEMMA ProceededFor ==
  ASSUME NEW h, NEW pc, NEW u, NEW t, NEW e, NEW s, NEW n,
         Proceed(h, At(pc, u, t, e, s, n)), TablesFor(t), Fits(u, t),
         pc \in {"activate", "remove"} => u \notin approved
  PROVE  \E c : StepFor(h, c)
<1>1. PICK c : c = At(pc, u, t, e, s, n)
  OBVIOUS
<1>2. c.pc = pc /\ c.id = u /\ c.tenant = t /\ c.got = {}
  BY <1>1 DEF At
<1>3. Own(c)
  BY <1>2 DEF Own
<1>4. QED
  BY <1>1, <1>2, <1>3 DEF StepFor, Proceed

-----------------------------------------------------------------------------
\* What the handlers take from their caller's claims, and what they go on with, fits.
LEMMA ClaimFits ==
  ASSUME AccountsInv, NEW c \in claims
  PROVE  Fits(c.sub, c.tid)
BY ClaimFields DEF Fits, Entitled

LEMMA GoesOnFits ==
  ASSUME TenantInv, NEW h \in Handlers
  PROVE  Fits(call[h].id, call[h].tenant)
BY DEF TenantInv, OwnTenant, Own

LEMMA NilFits == \A t : Fits(Null, t)
BY DEF Fits

LEMMA FoundFit ==
  ASSUME AccountsInv, NEW t
  PROVE  /\ \A e : \A u \in FindByEmail(t, e) : Fits(u, t)
         /\ \A u \in ListPendingRows(t) : Fits(u, t)
         /\ \A k \in ListActiveTokens(t) : TokenFits(k, t)
         /\ \A u : Refusal(t, u) = "none" => Fits(u, t) /\ row[u].status = "pending"
<1>1. ASSUME NEW u, Live(u), row[u].tenant = t PROVE Fits(u, t)
  BY <1>1 DEF Fits, Live
<1>2. ASSUME NEW u, Refusal(t, u) = "none"
      PROVE  Live(u) /\ row[u].tenant = t /\ row[u].status = "pending"
  BY <1>2 DEF Refusal
<1>3. QED
  BY <1>1, <1>2 DEF FindByEmail, ListPendingRows, ListActiveTokens, TokenFits, Stored

\* Handlers that are called with an access token.
LEMMA DecisionFor ==
  ASSUME TenantInv, NEW h \in Handlers, ApproveUser(h) \/ RejectUser(h)
  PROVE  \E c : StepFor(h, c)
<1>1. PICK c \in claims, u \in Users : Approve(h, c.tid, u) \/ Reject(h, c.tid, u)
  BY DEF ApproveUser, RejectUser
<1>2. PICK t : t = c.tid
  OBVIOUS
<1>3. TablesFor(t)
  BY NoTables DEF ApproveUser, RejectUser
<1>4. CASE Refusal(t, u) # "none"
  BY <1>1, <1>2, <1>3, <1>4, AnsweredNothing DEF Approve, Reject
<1>5. CASE Refusal(t, u) = "none"
  <2>1. \/ Proceed(h, At("activate", u, t, Null, Null, Null))
        \/ Proceed(h, At("remove", u, t, Null, Null, Null))
    BY <1>1, <1>2, <1>5 DEF Approve, Reject
  <2>2. Fits(u, t) /\ row[u].status = "pending" /\ Live(u)
    BY <1>5, FoundFit DEF Refusal, TenantInv
  <2>3. u \notin approved
    BY <2>2 DEF TenantInv, ApprovedAreActive
  <2>4. QED
    BY <1>3, <2>1, <2>2, <2>3, ProceededFor
<1>6. QED
  BY <1>4, <1>5

LEMMA ListFor ==
  ASSUME TenantInv, NEW h \in Handlers, ListPendingUsers(h) \/ ListServiceTokens(h)
  PROVE  \E c : StepFor(h, c)
<1>1. PICK t : \/ Answer(h, t, "ok", ListPendingRows(t))
               \/ Answer(h, t, "ok", ListActiveTokens(t))
  BY DEF ListPendingUsers, ListServiceTokens
<1>2. TablesFor(t)
  BY NoTables DEF ListPendingUsers, ListServiceTokens
<1>3. /\ \A u \in ListPendingRows(t) : Fits(u, t) /\ u \in Users
      /\ \A k \in ListActiveTokens(t) : TokenFits(k, t) /\ k \in ServiceTokens
  BY FoundFit DEF TenantInv, ListPendingRows, ListActiveTokens
<1>4. QED
  BY <1>1, <1>2, <1>3, AnsweredFor, IdsAreOfOneTable

LEMMA GetMeFor ==
  ASSUME TenantInv, NEW h \in Handlers, UNCHANGED <<row, svc>>,
         NEW u, NEW t, Fits(u, t),
         \/ Answer(h, t, "not_found", {})
         \/ Answer(h, t, "ok", FindById(u))
  PROVE  \E c : StepFor(h, c)
<1>1. TablesFor(t)
  BY NoTables
<1>2. \A v \in FindById(u) : Fits(v, t) /\ v \in Users
  BY DEF FindById, Live
<1>3. QED
  BY <1>1, <1>2, AnsweredFor, AnsweredNothing, IdsAreOfOneTable

LEMMA UpdateMeFor ==
  ASSUME TenantInv, NEW h \in Handlers, UpdateMe(h)
  PROVE  \E c : StepFor(h, c)
<1>1. PICK c \in claims, e \in Emails : UpdateMeApp(h, c, e) /\ UNCHANGED svc
  BY DEF UpdateMe
<1>2. PICK u, t : u = c.sub /\ t = c.tid
  OBVIOUS
<1>3. Fits(u, t)
  BY <1>2, ClaimFits DEF TenantInv
<1>4. CASE Answer(h, t, "internal", {}) /\ UNCHANGED row
  BY <1>1, <1>4, NoTables, AnsweredNothing
<1>5. CASE UpdateProfile(u, e) /\ Proceed(h, At("reread", u, t, Null, Null, Null))
  <2>1. OthersKept(u) /\ (row' = row \/ u # Null)
    BY <1>5, UpdateProfileEffect, NullsAreNoRows DEF TenantInv, AccountsInv, RowUpdated, Live
  <2>2. TablesFor(t)
    BY <1>1, <1>3, <2>1, RowFor
  <2>3. QED
    BY <1>3, <1>5, <2>2, ProceededFor
<1>6. QED
  BY <1>1, <1>2, <1>4, <1>5 DEF UpdateMeApp
LEMMA PasswordFor ==
  ASSUME TenantInv, NEW h \in Handlers, ChangePassword(h)
  PROVE  \E c : StepFor(h, c)
<1>1. PICK c \in claims, s \in Secrets, n \in Secrets \cup {Null} :
        IF n = Null THEN Answer(h, c.tid, "invalid_argument", {})
        ELSE Proceed(h, At("check", c.sub, c.tid, Null, s, n))
  BY DEF ChangePassword
<1>2. PICK u, t : u = c.sub /\ t = c.tid
  OBVIOUS
<1>3. Fits(u, t) /\ TablesFor(t)
  BY <1>2, ClaimFits, NoTables DEF TenantInv, ChangePassword
<1>4. \/ Answer(h, t, "invalid_argument", {})
      \/ Proceed(h, At("check", u, t, Null, s, n))
  BY <1>1, <1>2
<1>5. QED
  BY <1>3, <1>4, AnsweredNothing, ProceededFor

LEMMA OwnAccountFor ==
  ASSUME TenantInv, NEW h \in Handlers, GetMe(h) \/ DeleteMe(h)
  PROVE  \E c : StepFor(h, c)
<1>1. PICK c \in claims :
        \/ GetMeApp(h, c) /\ UNCHANGED <<row, svc>>
        \/ DeleteUser(c.sub) /\ Answer(h, c.tid, "ok", {})
  BY DEF GetMe, DeleteMe
<1>2. PICK u, t : u = c.sub /\ t = c.tid
  OBVIOUS
<1>3. Fits(u, t)
  BY <1>2, ClaimFits DEF TenantInv
<1>4. CASE GetMeApp(h, c) /\ UNCHANGED <<row, svc>>
  BY <1>2, <1>3, <1>4, GetMeFor DEF GetMeApp
<1>5. CASE DeleteUser(u) /\ Answer(h, t, "ok", {})
  BY <1>3, <1>5, DeletionFor, AnsweredNothing DEF TenantInv
<1>6. QED
  BY <1>1, <1>2, <1>4, <1>5

LEMMA TokensFor ==
  ASSUME TenantInv, NEW h \in Handlers, IssueServiceToken(h) \/ RevokeServiceToken(h)
  PROVE  \E c : StepFor(h, c)
<1>1. CASE RevokeServiceToken(h)
  <2>1. PICK c \in claims, k \in ServiceTokens :
          RevokeToken(k, c.tid) /\ Answer(h, c.tid, "ok", {}) /\ UNCHANGED row
    BY <1>1 DEF RevokeServiceToken
  <2>2. QED
    BY <2>1, RevokeFor, AnsweredNothing DEF TenantInv
<1>2. CASE IssueServiceToken(h)
  <2>1. PICK c \in claims : IssueApp(h, c.tid, c.sub) /\ UNCHANGED row
    BY <1>2 DEF IssueServiceToken
  <2>2. PICK u, t : u = c.sub /\ t = c.tid
    OBVIOUS
  <2>3. CASE Answer(h, t, "internal", {}) /\ UNCHANGED svc
    BY <2>1, <2>3, NoTables, AnsweredNothing
  <2>4. ASSUME NEW k \in ServiceTokens, CreateToken(k, t, u), Answer(h, t, "ok", {k})
        PROVE  \E d : StepFor(h, d)
    <3>1. t \in Tenants
      BY <2>2, <2>4, ClaimFields, NullsAreNoRows DEF CreateToken, Live, TenantInv
    <3>2. TablesFor(t) /\ TokenFits(k, t)'
      BY <2>1, <2>4, <3>1, CreateFor DEF TenantInv
    <3>3. PICK d : d = Rest(t, "ok", {k})
      OBVIOUS
    <3>4. d.pc = "rest" /\ d.id = Null /\ d.tenant = t /\ d.got = {k}
      BY <3>3, RestHolds
    <3>5. Own(d)'
      BY <3>2, <3>4, IdsAreOfOneTable DEF Own, Fits
    <3>6. QED
      BY <2>4, <3>2, <3>3, <3>4, <3>5 DEF StepFor, Answer
  <2>5. QED
    BY <2>1, <2>2, <2>3, <2>4 DEF IssueApp
<1>3. QED
  BY <1>1, <1>2

\* Registration and sign-in are for the tenant of the request.
LEMMA RegisterFor ==
  ASSUME TenantInv, NEW h \in Handlers, Register(h)
  PROVE  \E c : StepFor(h, c)
<1>1. PICK t \in Tenants, e \in Emails, s \in Secrets \cup {Null} : RegisterApp(h, t, e, s)
  BY DEF Register
<1>2. TablesFor(t) /\ Fits(Null, t)
  BY NoTables, NilFits DEF Register
<1>3. \/ \E code : Answer(h, t, code, {})
      \/ Proceed(h, At("insert", Null, t, e, s, Null))
  BY <1>1 DEF RegisterApp
<1>4. QED
  BY <1>2, <1>3, AnsweredNothing, ProceededFor

LEMMA LoginFor ==
  ASSUME TenantInv, NEW h \in Handlers, Login(h)
  PROVE  \E c : StepFor(h, c)
<1>1. PICK t \in Tenants, e \in Emails, s \in Secrets : Proceed(h, LoginPassword(t, e, s))
  BY DEF Login
<1>2. TablesFor(t)
  BY NoTables DEF Login
<1>3. ASSUME NEW code, Proceed(h, Rest(t, code, {})) PROVE \E c : StepFor(h, c)
  BY <1>2, <1>3, AnsweredNothing DEF Proceed, Answer
<1>4. CASE FindByEmail(t, e) = {}
  BY <1>1, <1>3, <1>4 DEF LoginPassword
<1>5. CASE FindByEmail(t, e) # {}
  <2>1. PICK u \in FindByEmail(t, e) : u = CHOOSE v \in FindByEmail(t, e) : TRUE
    BY <1>5
  <2>2. Fits(u, t)
    BY FoundFit DEF TenantInv
  <2>3. CASE row[u].status = "pending"
    BY <1>1, <1>3, <1>5, <2>1, <2>3 DEF LoginPassword
  <2>4. CASE row[u].status # "pending"
    <3>1. Proceed(h, At("verify", u, t, Null, s, Null))
      BY <1>1, <1>5, <2>1, <2>4 DEF LoginPassword
    <3>2. QED
      BY <1>2, <2>2, <3>1, ProceededFor
  <2>5. QED
    BY <2>3, <2>4
<1>6. QED
  BY <1>4, <1>5

\* The later statements of a handler.
LEMMA StatementFor ==
  ASSUME TenantInv, NEW h \in Handlers,
         \/ InsertUser(h) \/ Activate(h) \/ Remove(h) \/ VerifyLogin(h) \/ GrantSession(h)
         \/ Reread(h) \/ CheckPassword(h) \/ StorePassword(h) \/ Abandon(h)
  PROVE  \E c : StepFor(h, c)
<1>1. PICK u, t : u = call[h].id /\ t = call[h].tenant
  OBVIOUS
<1>2. Fits(u, t) /\ AccountsInv
  BY <1>1, GoesOnFits DEF TenantInv
<1>3. CASE InsertUser(h)
  <2>1. \E code : Answer(h, t, code, {})
    BY <1>1, <1>3 DEF InsertUser
  <2>2. \A v \in Users : row[v] = Null \/ row'[v] = row[v]
    BY <1>2, <1>3 DEF InsertUser, CreateUser, AccountsInv, TypeOK
  <2>3. TablesFor(t)
    BY <1>3, <2>2 DEF InsertUser, TablesFor, SvcStep, Stored, Live
  <2>4. QED
    BY <2>1, <2>3, AnsweredNothing
<1>4. CASE Activate(h)
  <2>1. u \in Users
    BY <1>1, <1>2, <1>4 DEF Activate, AccountsInv, AllHold, Holds
  <2>2. UNCHANGED svc /\ u # Null /\ (OthersKept(u) \/ row' = row)
    <3>1. UpdateStatus(u, "active") /\ u \in approved'
      BY <1>1, <1>4 DEF Activate
    <3>2. OthersKept(u)
      BY <1>2, <2>1, <3>1, UpdateStatusEffect DEF AccountsInv
    <3>3. QED
      BY <1>4, <2>1, <3>2, NullsAreNoRows DEF Activate
  <2>3. TablesFor(t)
    BY <1>2, <2>2, RowFor
  <2>4. QED
    BY <1>1, <1>4, <2>3, AnsweredNothing DEF Activate
<1>5. CASE Remove(h)
  BY <1>1, <1>2, <1>5, DeletionFor, AnsweredNothing DEF Remove
<1>6. CASE StorePassword(h)
  <2>1. UpdatePassword(u, call[h].fresh) /\ call[h].fresh \in Secrets
    BY <1>1, <1>2, <1>6 DEF StorePassword, AccountsInv, AllHold, Holds
  <2>2. OthersKept(u) /\ (row' = row \/ u # Null)
    BY <1>2, <2>1, UpdatePasswordEffect, NullsAreNoRows DEF AccountsInv, RowUpdated, Live
  <2>3. TablesFor(t)
    BY <1>2, <1>6, <2>2, RowFor DEF StorePassword
  <2>4. QED
    BY <1>1, <1>6, <2>3, AnsweredNothing DEF StorePassword
<1>7. CASE Reread(h)
  <2>1. \/ Answer(h, t, "not_found", {})
        \/ Answer(h, t, "ok", FindById(u))
    BY <1>1, <1>7 DEF Reread, GetMeApp
  <2>2. QED
    BY <1>2, <1>7, <2>1, GetMeFor DEF Reread
<1>8. CASE VerifyLogin(h) \/ CheckPassword(h) \/ GrantSession(h) \/ Abandon(h)
  <2>1. TablesFor(t)
    BY <1>8, NoTables DEF VerifyLogin, CheckPassword, GrantSession, Abandon
  <2>2. \/ \E code : Answer(h, t, code, {})
        \/ Proceed(h, At("touch", u, t, Null, Null, Null))
        \/ \E s, n : Proceed(h, At("store", u, t, Null, s, n))
    BY <1>1, <1>8 DEF VerifyLogin, CheckPassword, GrantSession, Abandon
  <2>3. QED
    BY <1>2, <2>1, <2>2, AnsweredNothing, ProceededFor
<1>9. QED
  BY <1>3, <1>4, <1>5, <1>6, <1>7, <1>8

LEMMA ActionsFor ==
  ASSUME TenantInv, Next
  PROVE  UNCHANGED <<row, svc, call, approved>> \/ \E h \in Handlers : \E c : StepFor(h, c)
BY DecisionFor, ListFor, UpdateMeFor, PasswordFor, OwnAccountFor, TokensFor, RegisterFor,
   LoginFor, StatementFor DEF Next, RefreshClaims
-----------------------------------------------------------------------------
\* Approvals.
LEMMA OldApprovals ==
  ASSUME AccountsInv, ApprovedAreActive, RowStep, NEW u \in approved
  PROVE  row'[u] # Null /\ (row'[u] # Gone => row'[u].status = "active")
<1>1. u \in Users
  BY DEF AccountsInv, TypeOK
<1>2. CASE row'[u] = row[u]
  BY <1>1, <1>2 DEF ApprovedAreActive, Live
<1>3. CASE RowUpdated(u)
  BY <1>1, <1>3, NullsAreNoRows DEF ApprovedAreActive, RowUpdated
<1>4. QED
  BY <1>1, <1>2, <1>3, NullsAreNoRows DEF RowStep, ApprovedAreActive

LEMMA ApprovalsStep == ASSUME TenantInv, [Next]_vars, RowStep PROVE ApprovedAreActive'
<1>1. CASE UNCHANGED approved
  BY <1>1, OldApprovals DEF ApprovedAreActive, Live, TenantInv
<1>2. ASSUME NEW h \in Handlers, Activate(h) PROVE ApprovedAreActive'
  <2>1. PICK u \in Users : u = call[h].id
    BY <1>2 DEF Activate, TenantInv, AccountsInv, AllHold, Holds
  <2>2. UpdateStatus(u, "active") /\ approved' = approved \cup {u}
    BY <1>2, <2>1 DEF Activate
  <2>3. row'[u] # Null /\ (row'[u] # Gone => row'[u].status = "active")
    <3>1. row[u] # Null
      BY <2>1, GoesOnFits, NullsAreNoRows DEF Fits
    <3>2. CASE ~Live(u)
      BY <2>2, <3>1, <3>2 DEF UpdateStatus, Live
    <3>3. CASE Live(u)
      <4>1. PICK r \in Row : r = row[u]
        BY <3>3, LiveRow DEF TenantInv, AccountsInv
      <4>2. /\ [r EXCEPT !.status = "active"] \in Row
            /\ [r EXCEPT !.status = "active"].status = "active"
        BY DEF Row, Statuses
      <4>3. row' = [row EXCEPT ![u] = [r EXCEPT !.status = "active"]]
        BY <2>2, <3>3, <4>1 DEF UpdateStatus
      <4>4. row'[u] = [r EXCEPT !.status = "active"]
        BY <4>3 DEF TenantInv, AccountsInv, TypeOK
      <4>5. QED
        BY <4>2, <4>4, NullsAreNoRows
    <3>4. QED
      BY <3>2, <3>3
  <2>4. QED
    BY <2>2, <2>3, OldApprovals DEF ApprovedAreActive, Live, TenantInv
<1>3. QED
  BY <1>1, <1>2
  DEF Next, vars, RefreshClaims, Register, InsertUser, ListPendingUsers, ApproveUser,
      RejectUser, Remove, Login, VerifyLogin, GrantSession, GetMe, UpdateMe, Reread, DeleteMe,
      ChangePassword, CheckPassword, StorePassword, IssueServiceToken, ListServiceTokens,
      RevokeServiceToken, Abandon

LEMMA InitTenantInv == Init => TenantInv
<1>. SUFFICES ASSUME Init PROVE TenantInv
  OBVIOUS
<1>1. OwnTenant
  <2>1. ASSUME NEW h \in Handlers PROVE Own(call[h])
    <3>1. PICK c : c = Rest(Null, "none", {})
      OBVIOUS
    <3>2. c.id = Null /\ c.got = {} /\ call[h] = c
      BY <3>1, RestHolds DEF Init
    <3>3. QED
      BY <3>2 DEF Own, Fits
  <2>2. QED
    BY <2>1 DEF OwnTenant
<1>2. ApprovedAreActive
  BY DEF Init, ApprovedAreActive
<1>3. QED
  BY <1>1, <1>2, InitAccountsInv DEF TenantInv

\* The inductive invariant behind the isolation of tenants: every handler works for
\* the tenant of its caller, and rows and tokens never move to another one.
THEOREM TenantInvariant == Spec => []TenantInv
<1>1. ASSUME TenantInv, AccountsInv', [Next]_vars PROVE TenantInv'
  <2>1. RowStep
    BY <1>1, TablesStep DEF TenantInv, TableStep
  <2>2. ApprovedAreActive'
    BY <1>1, <2>1, ApprovalsStep
  <2>3. CASE UNCHANGED <<row, svc, call>>
    BY <1>1, <2>2, <2>3
    DEF TenantInv, OwnTenant, Own, Fits, TokenFits, Live, Stored
  <2>4. ASSUME NEW h \in Handlers, NEW c, StepFor(h, c) PROVE OwnTenant'
    <3>1. SvcStep /\ call' = [call EXCEPT ![h] = c]
      BY <2>4 DEF StepFor, TablesFor
    <3>2. Own(c)'
      BY <2>1, <2>4, <3>1, OwnKept DEF StepFor
    <3>3. ASSUME NEW g \in Handlers PROVE Own(call[g])'
      <4>1. PICK d : d = call'[g] /\ (d = c \/ d = call[g])
        BY <1>1, <3>1 DEF TenantInv, AccountsInv, TypeOK
      <4>2. CASE d = c
        BY <3>2, <4>1, <4>2 DEF Own, Fits, TokenFits, Live, Stored
      <4>3. CASE d = call[g]
        <5>1. Own(d)'
          BY <1>1, <2>1, <3>1, <4>3, OwnKept DEF TenantInv, OwnTenant
        <5>2. QED
          BY <4>1, <5>1 DEF Own, Fits, TokenFits, Live, Stored
      <4>4. QED
        BY <4>1, <4>2, <4>3
    <3>4. QED
      BY <3>3 DEF OwnTenant
  <2>5. QED
    BY <1>1, <2>2, <2>3, <2>4, ActionsFor DEF TenantInv, vars
<1>2. QED
  BY <1>1, InitTenantInv, AccountsInvariant, PTL DEF Spec

\* What a handler returns are rows of the tenant its caller's claims name.
THEOREM HandlersReturnOwnRows == Spec => []NoForeignRows
<1>1. TenantInv => NoForeignRows
  <2>1. SUFFICES ASSUME TenantInv, NEW h \in Handlers
                 PROVE  /\ \A u \in call[h].got \cap Users :
                             Live(u) => row[u].tenant = call[h].tenant
                        /\ \A k \in call[h].got \cap ServiceTokens :
                             Stored(k) => svc[k].tenant = call[h].tenant
    BY DEF NoForeignRows
  <2>2. QED
    BY <2>1, NullsAreNoRows DEF TenantInv, OwnTenant, Own, Fits, TokenFits
<1>2. QED
  BY <1>1, TenantInvariant, PTL

LEMMA Moved ==
  ASSUME TypeOK, NEW h \in Handlers, NEW c, call' = [call EXCEPT ![h] = c]
  PROVE  call'[h] = c /\ \A g \in Handlers \ {h} : call'[g] = call[g]
BY DEF TypeOK

\* An account or a service token changes only in a statement of a handler called for
\* its tenant.
THEOREM TenantsStayIsolated == Spec => TenantsAreIsolated
<1>1. ASSUME TenantInv, [Next]_vars
      PROVE  /\ \A u \in Users : Live(u) /\ row'[u] # row[u] =>
                  \E h \in Handlers : ActedFor(h, row[u].tenant)
             /\ \A k \in ServiceTokens : Stored(k) /\ svc'[k] # svc[k] =>
                  \E h \in Handlers : ActedFor(h, svc[k].tenant)
  <2>1. CASE UNCHANGED <<row, svc>>
    BY <2>1
  <2>2. ASSUME NEW h \in Handlers, NEW c, StepFor(h, c)
        PROVE  ActedFor(h, c.tenant) /\ TablesFor(c.tenant)
    BY <1>1, <2>2, Moved DEF ActedFor, StepFor, TenantInv, AccountsInv
  <2>3. ASSUME NEW h \in Handlers, NEW t, ActedFor(h, t), TablesFor(t)
        PROVE  /\ \A u \in Users : Live(u) /\ row'[u] # row[u] => ActedFor(h, row[u].tenant)
               /\ \A k \in ServiceTokens : Stored(k) /\ svc'[k] # svc[k] =>
                    ActedFor(h, svc[k].tenant)
    BY <2>3 DEF TablesFor, ActedFor
  <2>4. QED
    <3>1. CASE \E h \in Handlers : \E c : StepFor(h, c)
      BY <2>2, <2>3, <3>1
    <3>2. QED
      BY <1>1, <2>1, <3>1, ActionsFor DEF vars
<1>2. QED
  BY <1>1, TenantInvariant, PTL DEF Spec, TenantsAreIsolated

\* No approval or rejection that starts after an approval was answered with OK gets
\* past its check.
THEOREM ApprovalsAreFinal == Spec => ApprovalIsFinal
<1>1. ASSUME TenantInv, [Next]_vars
      PROVE  \A h \in Handlers :
               Free(h) /\ call'[h].pc \in {"activate", "remove"}
                 => call'[h].id \notin approved
  <2>. SUFFICES ASSUME NEW g \in Handlers, Free(g), call'[g].pc \in {"activate", "remove"}
                PROVE  call'[g].id \notin approved
    OBVIOUS
  <2>1. call'[g] # call[g]
    BY DEF Free
  <2>2. PICK h \in Handlers : \E d : StepFor(h, d)
    BY <1>1, <2>1, ActionsFor DEF vars
  <2>3. PICK c : StepFor(h, c)
    BY <2>2
  <2>4. g = h /\ call'[g] = c
    BY <1>1, <2>1, <2>3, Moved DEF StepFor, TenantInv, AccountsInv
  <2>5. QED
    BY <1>1, <2>3, <2>4 DEF StepFor
<1>2. QED
  BY <1>1, TenantInvariant, PTL DEF Spec, ApprovalIsFinal
=============================================================================
