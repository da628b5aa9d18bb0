---------------------------- MODULE Gateway_proofs ----------------------------
(***************************************************************************)
(* Proofs about Gateway: its types, how long a key the issuer withdrew is  *)
(* accepted, that claims come from a verified token, and that errors keep  *)
(* their status, for any number of requests, keys, tokens and routes.      *)
(***************************************************************************)
EXTENDS Gateway, TLAPS

\* A request that waits for keys has waited at least as long as any key in the
\* answer to it is withdrawn; before it fetches it has no answer.
FetchAges ==
  \A r \in Requests :
    /\ request[r].stage = "auth" => request[r].keys = None
    /\ request[r].stage = "fetch" /\ request[r].keys # None =>
         \A k \in request[r].keys : unlisted[k] <= request[r].age

PublishedIsFresh == \A k \in published : unlisted[k] = 0

GatewayInv == TypeOK /\ FetchAges /\ PublishedIsFresh /\ StaleKeyBound

-----------------------------------------------------------------------------
\* What becomes of a slot.
Pending ==
  [stage : {"auth", "fetch", "limit", "upstream"}, call : Calls,
   peer : Peers, token : Tokens \cup {None}, claims : Tokens \cup {None},
   keys : {None} \cup SUBSET Kids, age : 0..FetchTimeout, ok : {FALSE}]

LEMMA SlotTypes ==
  ASSUME TypeOK, NEW r \in Requests
  PROVE  /\ request[r].stage # "done" => request[r] \in Pending
         /\ Pending \subseteq Request
         /\ request \in [Requests -> Request]
         /\ FetchTimeout \in Nat /\ CacheTtl \in Nat
BY CacheTimes DEF TypeOK, Request, Pending

LEMMA PendingFields ==
  ASSUME NEW q \in Pending
  PROVE  /\ q.stage \in {"auth", "fetch", "limit", "upstream"}
         /\ q.peer \in Peers /\ q.token \in Tokens \cup {None}
         /\ q.keys \in {None} \cup SUBSET Kids
         /\ q.age \in 0..FetchTimeout /\ q.age \in Nat
BY CacheTimes DEF Pending

LEMMA StageChanged ==
  ASSUME NEW q \in Pending, NEW stage \in {"auth", "fetch", "limit", "upstream"}
  PROVE  LET p == [q EXCEPT !.stage = stage]
         IN  p \in Pending /\ p.stage = stage /\ p.keys = q.keys /\ p.age = q.age
BY DEF Pending

LEMMA KeysChanged ==
  ASSUME NEW q \in Pending, NEW keys \in SUBSET Kids
  PROVE  LET p == [q EXCEPT !.keys = keys]
         IN  p \in Pending /\ p.stage = q.stage /\ p.keys = keys /\ p.age = q.age
BY DEF Pending

LEMMA AgeChanged ==
  ASSUME NEW q \in Pending, NEW age \in 0..FetchTimeout
  PROVE  LET p == [q EXCEPT !.age = age]
         IN  p \in Pending /\ p.stage = q.stage /\ p.keys = q.keys /\ p.age = age
BY DEF Pending

LEMMA Passed ==
  ASSUME NEW q \in Pending, NEW claims \in Tokens \cup {None}
  PROVE  LET p == [q EXCEPT !.stage = "limit", !.token = None, !.claims = claims,
                            !.keys = None, !.age = 0]
         IN  p \in Pending /\ p.stage = "limit"
<1>1. 0 \in 0..FetchTimeout
  BY CacheTimes
<1>2. QED
  BY <1>1 DEF Pending

LEMMA DoneType == ASSUME NEW status PROVE Done(status) \in Request /\ Done(status).stage = "done"
BY DEF Done, Request

\* A request that is answered, or moves on, keeps the types and the ages.
LEMMA AnswerKeeps ==
  ASSUME TypeOK, FetchAges, NEW r \in Requests, NEW status, Answer(r, status),
         UNCHANGED unlisted
  PROVE  request' \in [Requests -> Request] /\ FetchAges'
<1>1. /\ request' \in [Requests -> Request]
      /\ request'[r].stage = "done"
      /\ \A q \in Requests \ {r} : request'[q] = request[q]
  BY DoneType, SlotTypes DEF Answer
<1>2. QED
  BY <1>1 DEF FetchAges

LEMMA RefuseKeeps ==
  ASSUME TypeOK, FetchAges, NEW r \in Requests, NEW e, Refuse(r, e), UNCHANGED unlisted
  PROVE  request' \in [Requests -> Request] /\ FetchAges'
BY AnswerKeeps DEF Refuse

LEMMA MoveKeeps ==
  ASSUME TypeOK, FetchAges, NEW r \in Requests, NEW stage \in {"fetch", "upstream"},
         request[r].stage \in {"auth", "limit"},
         stage = "fetch" => request[r].stage = "auth",
         Move(r, stage), UNCHANGED unlisted
  PROVE  request' \in [Requests -> Request] /\ FetchAges'
<1>1. PICK q \in Pending : q = request[r]
  BY SlotTypes
<1>2. PICK p \in Pending : /\ p = [q EXCEPT !.stage = stage]
                          /\ p.stage = stage /\ p.keys = q.keys
  <2>1. stage \in {"auth", "fetch", "limit", "upstream"}
    OBVIOUS
  <2>2. /\ [q EXCEPT !.stage = stage] \in Pending
        /\ [q EXCEPT !.stage = stage].stage = stage
        /\ [q EXCEPT !.stage = stage].keys = q.keys
    BY <2>1, StageChanged
  <2>3. QED
    BY <2>2
<1>3. request' = [request EXCEPT ![r] = p]
  BY <1>1, <1>2 DEF Move
<1>4. /\ request' \in [Requests -> Request]
      /\ request'[r].stage = stage /\ request'[r].keys = request[r].keys
      /\ \A s \in Requests \ {r} : request'[s] = request[s]
  BY <1>1, <1>2, <1>3, SlotTypes
<1>5. QED
  BY <1>4 DEF FetchAges

LEMMA PassKeeps ==
  ASSUME TypeOK, FetchAges, NEW r \in Requests, NEW claims \in Tokens \cup {None},
         request[r].stage # "done", Pass(r, claims), UNCHANGED unlisted
  PROVE  request' \in [Requests -> Request] /\ FetchAges'
<1>1. PICK q \in Pending : q = request[r]
  BY SlotTypes
<1>2. request' = [request EXCEPT ![r] =
        [q EXCEPT !.stage = "limit", !.token = None, !.claims = claims,
                  !.keys = None, !.age = 0]]
  BY <1>1 DEF Pass
<1>3. /\ request' \in [Requests -> Request]
      /\ request'[r].stage = "limit"
      /\ \A p \in Requests \ {r} : request'[p] = request[p]
  BY <1>2, Passed, SlotTypes
<1>4. QED
  BY <1>3 DEF FetchAges

LEMMA DecodeKeeps ==
  ASSUME TypeOK, FetchAges, NEW r \in Requests, request[r].stage \in {"auth", "fetch"},
         Decode(r), UNCHANGED unlisted
  PROVE  request' \in [Requests -> Request] /\ FetchAges'
<1>1. request[r].token \in Tokens \cup {None}
  BY SlotTypes DEF Pending
<1>2. QED
  BY <1>1, PassKeeps, RefuseKeeps DEF Decode

-----------------------------------------------------------------------------
\* The actions.  Only four touch the keys.
LEMMA ArriveKeeps == ASSUME GatewayInv, NEW r \in Requests, Arrive(r) PROVE GatewayInv'
<1>1. PICK call \in Calls, peer \in Peers, token \in Tokens \cup {None} :
        request' = [request EXCEPT ![r] =
          [stage |-> "auth", call |-> call, peer |-> peer, token |-> token,
           claims |-> None, keys |-> None, age |-> 0, ok |-> FALSE]]
  BY DEF Arrive
<1>2. [stage |-> "auth", call |-> call, peer |-> peer, token |-> token,
       claims |-> None, keys |-> None, age |-> 0, ok |-> FALSE] \in Pending
  BY CacheTimes DEF Pending
<1>3. /\ request' \in [Requests -> Request]
      /\ request'[r].stage = "auth" /\ request'[r].keys = None
      /\ \A p \in Requests \ {r} : request'[p] = request[p]
  BY <1>1, <1>2, SlotTypes DEF GatewayInv
<1>4. UNCHANGED <<published, unlisted, cache, config, ipCells, cells, phase>>
  BY DEF Arrive, keyVars
<1>5. FetchAges'
  BY <1>3, <1>4 DEF GatewayInv, FetchAges
<1>6. QED
  BY <1>3, <1>4, <1>5 DEF GatewayInv, TypeOK, KeyTypeOK, PublishedIsFresh,
            StaleKeyBound, Cached

\* What leaves the keys, the configuration and the phase alone only has to keep
\* the slots and the cells.
LEMMA KeysUntouched ==
  ASSUME GatewayInv, request' \in [Requests -> Request], FetchAges',
         UNCHANGED <<published, unlisted, cache, config, phase>>,
         ipCells' \in [Peers -> 0..IpBurst], cells' \in 0..GlobalBurst
  PROVE  GatewayInv'
BY DEF GatewayInv, TypeOK, KeyTypeOK, PublishedIsFresh, StaleKeyBound, Cached

LEMMA AuthLayerKeeps == ASSUME GatewayInv, NEW r \in Requests, AuthLayer(r) PROVE GatewayInv'
<1>1. /\ request[r].stage = "auth"
      /\ UNCHANGED <<published, unlisted, cache, config, ipCells, cells, phase>>
      /\ Pass(r, None) \/ Refuse(r, "Unauthenticated") \/ Decode(r) \/ Move(r, "fetch")
  BY DEF AuthLayer, keyVars
<1>2. request' \in [Requests -> Request] /\ FetchAges'
  BY <1>1, PassKeeps, RefuseKeeps, DecodeKeeps, MoveKeeps DEF GatewayInv
<1>3. QED
  BY <1>1, <1>2, KeysUntouched DEF GatewayInv, TypeOK

LEMMA ServeKeysKeeps == ASSUME GatewayInv, NEW r \in Requests, ServeKeys(r) PROVE GatewayInv'
<1>0. UNCHANGED <<published, unlisted, cache, config, ipCells, cells, phase>>
  BY DEF ServeKeys, keyVars
<1>1. /\ request[r].stage = "fetch" /\ published \in SUBSET Kids
      /\ request' = [request EXCEPT ![r].keys = published]
  BY DEF ServeKeys, GatewayInv, TypeOK, KeyTypeOK
<1>2. PICK q \in Pending : q = request[r]
  BY <1>1, SlotTypes DEF GatewayInv
<1>3. PICK p \in Pending : /\ p = [q EXCEPT !.keys = published]
                          /\ p.stage = q.stage /\ p.keys = published /\ p.age = q.age
  BY <1>1, KeysChanged
<1>4. request' = [request EXCEPT ![r] = p]
  BY <1>1, <1>2, <1>3
<1>5. /\ request' \in [Requests -> Request]
      /\ request'[r].stage = "fetch" /\ request'[r].keys = published
      /\ request'[r].age = q.age /\ q.age \in Nat
      /\ \A s \in Requests \ {r} : request'[s] = request[s]
  BY <1>1, <1>2, <1>3, <1>4, PendingFields, SlotTypes DEF GatewayInv
<1>6. \A k \in published : unlisted[k] = 0
  BY DEF GatewayInv, PublishedIsFresh
<1>7. FetchAges'
  BY <1>0, <1>5, <1>6 DEF GatewayInv, FetchAges
<1>8. QED
  BY <1>0, <1>5, <1>7, KeysUntouched DEF GatewayInv, TypeOK

LEMMA FetchDoneKeeps == ASSUME GatewayInv, NEW r \in Requests, FetchDone(r) PROVE GatewayInv'
<1> DEFINE q == request[r]
<1>0. UNCHANGED <<published, unlisted, config, ipCells, cells, phase>>
  BY DEF FetchDone
<1>1. /\ q \in Pending /\ q.stage = "fetch" /\ q.keys # None /\ Insert(q.keys)
      /\ Decode(r) \/ Refuse(r, "Unauthenticated")
  BY SlotTypes DEF FetchDone, GatewayInv
<1>2. request' \in [Requests -> Request] /\ FetchAges'
  BY <1>0, <1>1, DecodeKeeps, RefuseKeeps DEF GatewayInv
<1>3. /\ cache' = [k \in Kids |-> IF k \in q.keys THEN CacheTtl ELSE cache[k]]
      /\ cache' \in [Kids -> 0..CacheTtl]
  BY <1>1, CacheTimes DEF Insert, GatewayInv, TypeOK, KeyTypeOK
<1>4. q.age \in 0..FetchTimeout /\ \A k \in q.keys : unlisted[k] <= q.age
  BY <1>1 DEF GatewayInv, FetchAges, Pending
<1>5. StaleKeyBound'
  <2>1. ASSUME NEW k \in Kids, Cached(k)'
        PROVE  unlisted'[k] <= (CacheTtl - cache'[k]) + FetchTimeout
    <3>1. unlisted[k] \in Nat
      BY CacheTimes DEF GatewayInv, TypeOK, KeyTypeOK, StaleBound
    <3>2. CASE k \in q.keys
      BY <3>1, <3>2, <1>0, <1>3, <1>4, CacheTimes
    <3>3. CASE k \notin q.keys
      BY <2>1, <3>3, <1>0, <1>3 DEF GatewayInv, StaleKeyBound, Cached
    <3>4. QED
      BY <3>2, <3>3
  <2>2. QED
    BY <2>1 DEF StaleKeyBound
<1>6. QED
  BY <1>0, <1>2, <1>3, <1>5 DEF GatewayInv, TypeOK, KeyTypeOK, PublishedIsFresh

LEMMA FetchFailsKeeps == ASSUME GatewayInv, NEW r \in Requests, FetchFails(r) PROVE GatewayInv'
<1>1. /\ UNCHANGED <<published, unlisted, cache, config, ipCells, cells, phase>>
      /\ Refuse(r, "Unauthenticated")
  BY DEF FetchFails, keyVars
<1>2. QED
  BY <1>1, RefuseKeeps, KeysUntouched DEF GatewayInv, TypeOK

LEMMA RateLimitKeeps == ASSUME GatewayInv, NEW r \in Requests, RateLimit(r) PROVE GatewayInv'
<1>1. /\ request[r].stage = "limit"
      /\ UNCHANGED <<published, unlisted, cache, config, phase>>
  BY DEF RateLimit, keyVars
<1>2. request[r].peer \in Peers
  BY <1>1, SlotTypes DEF GatewayInv, Pending
<1>3. ipCells' \in [Peers -> 0..IpBurst] /\ cells' \in 0..GlobalBurst
  BY <1>2, Quotas DEF RateLimit, GatewayInv, TypeOK
<1>4. \/ Refuse(r, "RateLimited") \/ Refuse(r, "UpstreamUnavailable")
      \/ Answer(r, request[r].call.ok) \/ Move(r, "upstream")
  BY DEF RateLimit, Handle
<1>5. request' \in [Requests -> Request] /\ FetchAges'
  BY <1>1, <1>4, AnswerKeeps, RefuseKeeps, MoveKeeps DEF GatewayInv
<1>6. QED
  BY <1>1, <1>3, <1>5, KeysUntouched

LEMMA UpstreamAnswersKeeps ==
  ASSUME GatewayInv, NEW r \in Requests, UpstreamAnswers(r) PROVE GatewayInv'
<1>1. /\ UNCHANGED <<published, unlisted, cache, config, ipCells, cells, phase>>
      /\ \/ Answer(r, request[r].call.ok)
         \/ \E code \in Codes : Refuse(r, MapGrpc(code))
  BY DEF UpstreamAnswers, keyVars
<1>2. request' \in [Requests -> Request] /\ FetchAges'
  BY <1>1, AnswerKeeps, RefuseKeeps DEF GatewayInv
<1>3. QED
  BY <1>1, <1>2, KeysUntouched DEF GatewayInv, TypeOK

LEMMA RequestTimeoutKeeps ==
  ASSUME GatewayInv, NEW r \in Requests, RequestTimeout(r) PROVE GatewayInv'
<1>1. /\ UNCHANGED <<published, unlisted, cache, config, ipCells, cells, phase>>
      /\ Answer(r, 408)
  BY DEF RequestTimeout, keyVars
<1>2. QED
  BY <1>1, AnswerKeeps, KeysUntouched DEF GatewayInv, TypeOK

\* A tick makes each entry older by as much as the key it holds.
LEMMA TickKeeps == ASSUME GatewayInv, Tick PROVE GatewayInv'
<1>0. /\ CacheTtl \in Nat /\ FetchTimeout \in Nat
      /\ unlisted \in [Kids -> 0..(StaleBound + 1)] /\ cache \in [Kids -> 0..CacheTtl]
      /\ published \subseteq Kids /\ StaleBound \in Nat /\ AgeKeys
      /\ UNCHANGED <<published, config, phase>>
  BY CacheTimes DEF GatewayInv, TypeOK, KeyTypeOK, StaleBound, Tick
<1>1. /\ unlisted' \in [Kids -> 0..(StaleBound + 1)]
      /\ \A k \in Kids : unlisted'[k] <= unlisted[k] + 1
      /\ \A k \in published : unlisted'[k] = 0
  BY <1>0 DEF AgeKeys, GatewayInv, PublishedIsFresh
<1>2. /\ cache' \in [Kids -> 0..CacheTtl]
      /\ \A k \in Kids : cache'[k] > 0 => cache[k] > 0 /\ cache'[k] = cache[k] - 1
  BY <1>0 DEF AgeKeys
<1>3. StaleKeyBound'
  BY <1>0, <1>1, <1>2 DEF GatewayInv, StaleKeyBound, Cached
<1>4. ASSUME NEW r \in Requests, request[r].stage = "fetch"
      PROVE  /\ request'[r] \in Request
             /\ request'[r].stage = "fetch" /\ request'[r].keys = request[r].keys
             /\ request'[r].age = request[r].age + 1
  <2>1. PICK q \in Pending : q = request[r]
    BY <1>4, SlotTypes DEF GatewayInv
  <2>2. q.age < FetchTimeout /\ request'[r] = [q EXCEPT !.age = q.age + 1]
    BY <1>4, <2>1 DEF Tick
  <2>3. q.age + 1 \in 0..FetchTimeout
    BY <1>0, <2>2, PendingFields
  <2>4. QED
    BY <1>4, <2>1, <2>2, <2>3, AgeChanged, SlotTypes DEF GatewayInv
<1>5. ASSUME NEW r \in Requests, request[r].stage # "fetch"
      PROVE  request'[r] = request[r]
  BY <1>5 DEF Tick
<1>6. request' \in [Requests -> Request]
  <2>1. request' = [r \in Requests |-> request'[r]]
    BY DEF Tick
  <2>2. \A r \in Requests : request'[r] \in Request
    BY <1>4, <1>5, SlotTypes DEF GatewayInv
  <2>3. QED
    BY <2>1, <2>2
<1>7. FetchAges'
  <2>1. ASSUME NEW r \in Requests, request'[r].stage = "fetch", request'[r].keys # None,
               NEW k \in request'[r].keys
        PROVE  unlisted'[k] <= request'[r].age
    <3>1. request[r].stage = "fetch" /\ request[r] \in Pending
      BY <2>1, <1>5, SlotTypes DEF GatewayInv
    <3>2. /\ request[r].keys \in SUBSET Kids /\ k \in Kids /\ request[r].age \in Nat
          /\ unlisted[k] <= request[r].age
      <4>1. request'[r].keys = request[r].keys
        BY <3>1, <1>4
      <4>2. request[r].keys \in SUBSET Kids /\ request[r].age \in Nat
        BY <2>1, <3>1, <4>1, PendingFields
      <4>3. QED
        BY <2>1, <3>1, <4>1, <4>2 DEF GatewayInv, FetchAges
    <3>3. QED
      BY <3>1, <3>2, <1>0, <1>1, <1>4
  <2>2. QED
    BY <2>1, <1>4, <1>5 DEF FetchAges, GatewayInv
<1>8. ipCells' \in [Peers -> 0..IpBurst] /\ cells' \in 0..GlobalBurst
  BY Quotas DEF Tick, GatewayInv, TypeOK
<1>9. QED
  BY <1>0, <1>1, <1>2, <1>3, <1>6, <1>7, <1>8
     DEF GatewayInv, TypeOK, KeyTypeOK, PublishedIsFresh

LEMMA RotateKeysKeeps == ASSUME GatewayInv, RotateKeys PROVE GatewayInv'
<1>0. /\ StaleBound \in Nat /\ CacheTtl \in Nat /\ FetchTimeout \in Nat
      /\ unlisted \in [Kids -> 0..(StaleBound + 1)] /\ cache \in [Kids -> 0..CacheTtl]
      /\ UNCHANGED <<cache, config, request, ipCells, cells, phase>>
  BY CacheTimes DEF GatewayInv, TypeOK, KeyTypeOK, StaleBound, RotateKeys, Rotate
<1>1. published' \subseteq Kids
  BY DEF RotateKeys, Rotate, GatewayInv, TypeOK, KeyTypeOK
<1>2. /\ unlisted' \in [Kids -> 0..(StaleBound + 1)]
      /\ \A k \in Kids : unlisted'[k] <= unlisted[k]
      /\ \A k \in published' : unlisted'[k] = 0
  BY <1>0, <1>1 DEF RotateKeys, Rotate
<1>3. StaleKeyBound'
  BY <1>0, <1>2 DEF GatewayInv, StaleKeyBound, Cached
<1>4. FetchAges'
  <2>1. ASSUME NEW r \in Requests, request[r].stage = "fetch", request[r].keys # None,
               NEW k \in request[r].keys
        PROVE  unlisted'[k] <= request[r].age
    <3>1. k \in Kids /\ request[r].age \in Nat /\ unlisted[k] <= request[r].age
      <4>1. request[r] \in Pending
        BY <2>1, SlotTypes DEF GatewayInv
      <4>2. request[r].keys \in SUBSET Kids /\ request[r].age \in Nat
        BY <2>1, <4>1, PendingFields
      <4>3. QED
        BY <2>1, <4>2 DEF GatewayInv, FetchAges
    <3>2. QED
      BY <3>1, <1>0, <1>2
  <2>2. QED
    BY <2>1, <1>0 DEF FetchAges, GatewayInv
<1>5. QED
  BY <1>0, <1>1, <1>2, <1>3, <1>4 DEF GatewayInv, TypeOK, KeyTypeOK, PublishedIsFresh

LEMMA PhaseKeeps == ASSUME GatewayInv, Signal \/ Stop PROVE GatewayInv'
BY DEF GatewayInv, TypeOK, KeyTypeOK, FetchAges, PublishedIsFresh, StaleKeyBound, Cached,
       Signal, Stop, keyVars

LEMMA StutterKeeps == ASSUME GatewayInv, UNCHANGED vars PROVE GatewayInv'
BY DEF GatewayInv, TypeOK, KeyTypeOK, FetchAges, PublishedIsFresh, StaleKeyBound, Cached,
       vars, keyVars

LEMMA InitGatewayInv == Init => GatewayInv
<1> SUFFICES ASSUME Init PROVE GatewayInv
  OBVIOUS
<1>1. KeyTypeOK /\ PublishedIsFresh /\ StaleKeyBound
  BY CacheTimes DEF Init, KeyInit, KeyTypeOK, PublishedIsFresh, StaleKeyBound, Cached,
                    StaleBound
<1>2. config \in [local : BOOLEAN, services : SUBSET Configurable]
  BY DeploymentsAreServices DEF Init
<1>3. request \in [Requests -> Request] /\ FetchAges
  BY DoneType DEF Init, FetchAges
<1>4. QED
  BY <1>1, <1>2, <1>3, Quotas DEF Init, GatewayInv, TypeOK

-----------------------------------------------------------------------------
\* The inductive invariant of the gateway.
THEOREM GatewayInvariant == Spec => []GatewayInv
<1>1. GatewayInv /\ [Next]_vars => GatewayInv'
  BY ArriveKeeps, AuthLayerKeeps, ServeKeysKeeps, FetchDoneKeeps, FetchFailsKeeps,
     RateLimitKeeps, UpstreamAnswersKeeps, RequestTimeoutKeeps, TickKeeps,
     RotateKeysKeeps, PhaseKeeps, StutterKeeps DEF Next
<1>2. QED
  BY <1>1, InitGatewayInv, PTL DEF Spec

\* Every reachable state is well typed: no entry lives longer than CacheTtl, and no
\* limiter holds more cells than its burst.
THEOREM GatewayTypes == Spec => []TypeOK
<1>1. GatewayInv => TypeOK
  BY DEF GatewayInv
<1>2. QED
  BY <1>1, GatewayInvariant, PTL

\* A withdrawn key is accepted for at most CacheTtl + FetchTimeout ticks, however
\* many requests fetch keys at once.
THEOREM WithdrawnKeysAgeOut == Spec => []StaleKeyBound
<1>1. GatewayInv => StaleKeyBound
  BY DEF GatewayInv
<1>2. QED
  BY <1>1, GatewayInvariant, PTL

-----------------------------------------------------------------------------
\* The public prefixes and the handlers that extract Claims.
LEMMA PrefixPoints ==
  ASSUME NEW s, NEW t, Len(s) \in Nat, IsPrefix(s, t)
  PROVE  \A i \in 1..Len(s) : t[i] = s[i]
BY DEF IsPrefix

LEMMA ClaimsPaths ==
  ASSUME NEW c \in Routes, c.claims
  PROVE  /\ Len(c.path) \in Nat /\ c.path[1] = "v1"
         /\ c.path[2] = "auth" => Len(c.path) = 3 /\ c.path[3] = "ws-ticket"
<1>1. CASE c \in {Live, Ready, Metrics, Jwks, AuthLogin, AuthRefresh,
              AuthLogout, AuthRegister, AiRunStream}
  BY <1>1 DEF Anonymous, Private, Live, Ready, Metrics, Jwks, AuthLogin,
         AuthRefresh, AuthLogout, AuthRegister, AiRunStream
<1>2. CASE c = WsTicket
  BY <1>2 DEF Private, WsTicket
<1>3. CASE c \in {MeGet, MeUpdate, MeDelete, MeChangePassword, TokensList,
              TokensCreate, TokenRevoke}
  BY <1>3 DEF Private, MeGet, MeUpdate, MeDelete, MeChangePassword,
         TokensList, TokensCreate, TokenRevoke
<1>4. CASE c \in {UsersListPending, UserApprove, UserReject, DevicesList,
              DeviceGet, DeviceDelete, DeviceEnroll}
  BY <1>4 DEF Private, UsersListPending, UserApprove, UserReject,
         DevicesList, DeviceGet, DeviceDelete, DeviceEnroll
<1>5. CASE c \in {AiAgentsList, AiAgentsCreate, AiRunStart, WfList, WfCreate,
              WfStart, WfGet, NotifChannels, StatsOverview}
  BY <1>5 DEF Private, AiAgentsList, AiAgentsCreate, AiRunStart, WfList,
         WfCreate, WfStart, WfGet, NotifChannels, StatsOverview
<1>6. QED
  BY <1>1, <1>2, <1>3, <1>4, <1>5 DEF Routes

LEMMA PrefixPaths ==
  ASSUME NEW p \in PublicPrefixes
  PROVE  /\ Len(p) \in Nat /\ Len(p) >= 1
         /\ \/ p[1] # "v1"
            \/ Len(p) = 3 /\ p[2] = "auth" /\ p[3] # "ws-ticket"
<1>1. CASE p \in {<<"healthz">>, <<"readyz">>, <<"metrics">>, <<".well-known">>}
  BY <1>1
<1>2. CASE p = <<"auth", "oidc">>
  BY <1>2
<1>3. CASE p \in {<<"v1", "auth", "login">>, <<"v1", "auth", "refresh">>,
                  <<"v1", "auth", "logout">>, <<"v1", "auth", "register">>}
  BY <1>3
<1>4. QED
  BY <1>1, <1>2, <1>3 DEF PublicPrefixes

\* No public prefix covers a handler that extracts Claims.
LEMMA PublicTakesNone == ASSUME NEW c \in Routes, c.claims PROVE ~Public(c.path)
<1>1. SUFFICES ASSUME NEW p \in PublicPrefixes, IsPrefix(p, c.path) PROVE FALSE
  BY DEF Public
<1>2. \A i \in 1..Len(p) : c.path[i] = p[i]
  BY <1>1, PrefixPoints, PrefixPaths
<1>3. Len(p) >= 1 /\ Len(p) \in Nat
  BY PrefixPaths
<1>4. c.path[1] = p[1]
  BY <1>2, <1>3
<1>5. Len(p) = 3 /\ p[2] = "auth" /\ p[3] # "ws-ticket"
  BY <1>4, PrefixPaths, ClaimsPaths
<1>6. c.path[2] = p[2] /\ c.path[3] = p[3]
  BY <1>2, <1>5
<1>7. QED
  BY <1>5, <1>6, ClaimsPaths

-----------------------------------------------------------------------------
\* What a slot owes to the verification: a request that waits for keys has a
\* token, and past the authentication the claims are those of a good one.
Checked(q) ==
  /\ q.stage = "fetch" => q.token # None
  /\ q.stage \in {"limit", "upstream"} =>
       /\ q.call.claims => q.claims # None
       /\ q.claims # None => q.claims.good

ClaimsInv == \A r \in Requests : Checked(request[r])

LEMMA CallKept ==
  ASSUME NEW q \in Pending, NEW stage, NEW keys, NEW age
  PROVE  /\ [q EXCEPT !.stage = stage].call = q.call
         /\ [q EXCEPT !.stage = stage].claims = q.claims
         /\ [q EXCEPT !.stage = stage].token = q.token
         /\ [q EXCEPT !.stage = stage].stage = stage
         /\ [q EXCEPT !.keys = keys].token = q.token
         /\ [q EXCEPT !.keys = keys].stage = q.stage
         /\ [q EXCEPT !.age = age].token = q.token
         /\ [q EXCEPT !.age = age].stage = q.stage
BY DEF Pending

LEMMA PassedFields ==
  ASSUME NEW q \in Pending, NEW claims
  PROVE  LET p == [q EXCEPT !.stage = "limit", !.token = None, !.claims = claims,
                            !.keys = None, !.age = 0]
         IN  p.stage = "limit" /\ p.call = q.call /\ p.claims = claims
BY DEF Pending

LEMMA OneSlot ==
  ASSUME TypeOK, ClaimsInv, NEW r \in Requests, NEW q, Checked(q),
         request' = [request EXCEPT ![r] = q]
  PROVE  ClaimsInv'
<1>1. request'[r] = q /\ \A s \in Requests \ {r} : request'[s] = request[s]
  BY DEF TypeOK
<1>2. QED
  BY <1>1 DEF ClaimsInv, Checked

LEMMA AnswerChecks ==
  ASSUME TypeOK, ClaimsInv, NEW r \in Requests, NEW status, Answer(r, status)
  PROVE  ClaimsInv'
<1>1. Checked(Done(status))
  BY DEF Checked, Done
<1>2. QED
  BY <1>1, OneSlot DEF Answer

LEMMA PassChecks ==
  ASSUME TypeOK, ClaimsInv, NEW r \in Requests, request[r].stage # "done", NEW claims,
         request[r].call.claims => claims # None, claims # None => claims.good,
         Pass(r, claims)
  PROVE  ClaimsInv'
<1>1. PICK q \in Pending : q = request[r]
  BY SlotTypes
<1>2. PICK p : p = [q EXCEPT !.stage = "limit", !.token = None, !.claims = claims,
                             !.keys = None, !.age = 0]
  OBVIOUS
<1>3. p.stage = "limit" /\ p.call = q.call /\ p.claims = claims
  BY <1>2, PassedFields
<1>4. Checked(p)
  BY <1>1, <1>3 DEF Checked
<1>5. request' = [request EXCEPT ![r] = p]
  BY <1>1, <1>2 DEF Pass
<1>6. QED
  BY <1>4, <1>5, OneSlot

LEMMA MoveChecks ==
  ASSUME TypeOK, ClaimsInv, NEW r \in Requests, NEW stage, Move(r, stage),
         \/ stage = "fetch" /\ request[r].stage = "auth" /\ request[r].token # None
         \/ stage = "upstream" /\ request[r].stage = "limit"
  PROVE  ClaimsInv'
<1>1. PICK q \in Pending : q = request[r]
  BY SlotTypes
<1>2. PICK p : p = [q EXCEPT !.stage = stage]
  OBVIOUS
<1>3. p.stage = stage /\ p.call = q.call /\ p.claims = q.claims /\ p.token = q.token
  BY <1>2, CallKept
<1>4. Checked(p)
  BY <1>1, <1>3 DEF Checked, ClaimsInv
<1>5. request' = [request EXCEPT ![r] = p]
  BY <1>1, <1>2 DEF Move
<1>6. QED
  BY <1>4, <1>5, OneSlot

LEMMA DecodeChecks ==
  ASSUME TypeOK, ClaimsInv, NEW r \in Requests, request[r].stage # "done",
         request[r].token # None, Decode(r)
  PROVE  ClaimsInv'
<1>1. CASE request[r].token.good
  BY <1>1, PassChecks DEF Decode
<1>2. CASE ~request[r].token.good
  BY <1>2, AnswerChecks DEF Decode, Refuse
<1>3. QED
  BY <1>1, <1>2

LEMMA AuthLayerChecks ==
  ASSUME TypeOK, ClaimsInv, NEW r \in Requests, AuthLayer(r) PROVE ClaimsInv'
<1>1. request[r].stage = "auth" /\ request[r].call \in Routes
  BY SlotTypes, CallsAreRoutes DEF AuthLayer, Pending
<1>2. CASE Public(request[r].call.path) /\ Pass(r, None)
  <2>1. ~request[r].call.claims
    BY <1>1, <1>2, PublicTakesNone
  <2>2. QED
    BY <1>1, <1>2, <2>1, PassChecks
<1>3. CASE Refuse(r, "Unauthenticated")
  BY <1>3, AnswerChecks DEF Refuse
<1>4. CASE request[r].token # None /\ Decode(r)
  BY <1>1, <1>4, DecodeChecks
<1>5. CASE request[r].token # None /\ Move(r, "fetch")
  BY <1>1, <1>5, MoveChecks
<1>6. QED
  BY <1>2, <1>3, <1>4, <1>5 DEF AuthLayer

LEMMA ServeKeysChecks ==
  ASSUME TypeOK, ClaimsInv, NEW r \in Requests, ServeKeys(r) PROVE ClaimsInv'
<1>1. PICK q \in Pending : q = request[r] /\ q.stage = "fetch"
  BY SlotTypes DEF ServeKeys
<1>2. PICK p : p = [q EXCEPT !.keys = published]
  OBVIOUS
<1>3. Checked(p)
  BY <1>1, <1>2, CallKept DEF Checked, ClaimsInv
<1>4. request' = [request EXCEPT ![r] = p]
  BY <1>1, <1>2 DEF ServeKeys
<1>5. QED
  BY <1>3, <1>4, OneSlot

LEMMA TickChecks == ASSUME TypeOK, ClaimsInv, Tick PROVE ClaimsInv'
<1>1. ASSUME NEW r \in Requests, request[r].stage = "fetch" PROVE Checked(request'[r])
  <2>1. PICK q \in Pending : q = request[r]
    BY <1>1, SlotTypes
  <2>2. request'[r] = [q EXCEPT !.age = q.age + 1]
    BY <1>1, <2>1 DEF Tick
  <2>3. request'[r].stage = "fetch" /\ request'[r].token = request[r].token
    BY <1>1, <2>1, <2>2, CallKept
  <2>4. QED
    BY <1>1, <2>3 DEF Checked, ClaimsInv
<1>2. ASSUME NEW r \in Requests, request[r].stage # "fetch" PROVE request'[r] = request[r]
  BY <1>2 DEF Tick
<1>3. QED
  BY <1>1, <1>2 DEF ClaimsInv, Checked

LEMMA ClaimsSteps == ASSUME TypeOK, ClaimsInv, [Next]_vars PROVE ClaimsInv'
<1>1. ASSUME NEW r \in Requests, Arrive(r) PROVE ClaimsInv'
  BY <1>1, OneSlot DEF Arrive, Checked
<1>2. ASSUME NEW r \in Requests, FetchDone(r) PROVE ClaimsInv'
  <2>1. /\ request[r].stage = "fetch" /\ request[r].token # None
        /\ Decode(r) \/ Refuse(r, "Unauthenticated")
    BY <1>2 DEF FetchDone, ClaimsInv, Checked
  <2>2. QED
    BY <2>1, DecodeChecks, AnswerChecks DEF Refuse
<1>3. ASSUME NEW r \in Requests, RateLimit(r) PROVE ClaimsInv'
  <2>1. /\ request[r].stage = "limit"
        /\ \/ \E status : Answer(r, status)
           \/ Move(r, "upstream")
    BY <1>3 DEF RateLimit, Handle, Refuse
  <2>2. QED
    BY <2>1, AnswerChecks, MoveChecks
<1>4. ASSUME NEW r \in Requests, FetchFails(r) \/ UpstreamAnswers(r) \/ RequestTimeout(r)
      PROVE  ClaimsInv'
  <2>1. \E status : Answer(r, status)
    BY <1>4 DEF FetchFails, UpstreamAnswers, RequestTimeout, Refuse
  <2>2. QED
    BY <2>1, AnswerChecks
<1>5. CASE RotateKeys \/ Signal \/ Stop \/ UNCHANGED vars
  BY <1>5 DEF RotateKeys, Signal, Stop, vars, ClaimsInv, Checked
<1>6. QED
  BY <1>1, <1>2, <1>3, <1>4, <1>5, AuthLayerChecks, ServeKeysChecks, TickChecks DEF Next

\* A handler that extracts Claims (routes.rs) is only reached with the claims of a
\* token that checks out, whichever of the routes are called (middleware.rs).
THEOREM HandlersGetVerifiedClaims == Spec => []ClaimsAreVerified
<1>1. Init => ClaimsInv
  BY DEF Init, ClaimsInv, Checked, Done
<1>2. TypeOK /\ ClaimsInv /\ [Next]_vars => ClaimsInv'
  BY ClaimsSteps
<1>3. ClaimsInv => ClaimsAreVerified
  BY DEF ClaimsInv, Checked, ClaimsAreVerified
<1>4. QED
  BY <1>1, <1>2, <1>3, GatewayTypes, PTL DEF Spec

-----------------------------------------------------------------------------
\* error.rs and map_grpc of routes.rs: a gRPC code is guessed back as an error of
\* the same HTTP status.
LEMMA CodesAreGuessed ==
  ASSUME NEW e \in Errors PROVE HttpStatus(MapGrpc(GrpcStatus(e))) = HttpStatus(e)
<1>1. CASE e \in {"BadRequest", "Validation"}
  BY <1>1 DEF HttpStatus, MapGrpc, GrpcStatus
<1>2. CASE e \in {"Unauthenticated", "Forbidden", "NotFound", "Conflict"}
  BY <1>2 DEF HttpStatus, MapGrpc, GrpcStatus
<1>3. CASE e \in {"PreconditionFailed", "RateLimited", "UpstreamUnavailable", "Internal"}
  BY <1>3 DEF HttpStatus, MapGrpc, GrpcStatus
<1>4. QED
  BY <1>1, <1>2, <1>3 DEF Errors

\* The status of an error survives its way through a gRPC code (error.rs, routes.rs).
THEOREM ErrorsKeepTheirStatus == Spec => []ErrorsSurviveTwoHops
<1>1. ErrorsSurviveTwoHops
  BY CodesAreGuessed DEF ErrorsSurviveTwoHops
<1>2. QED
  BY <1>1, PTL
=============================================================================
