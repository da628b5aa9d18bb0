------------------------------- MODULE Gateway -------------------------------
(***************************************************************************)
(* A request's way through the API gateway: the layers of main.rs in the   *)
(* order they run (timeout, authentication, rate limits), the handler, and *)
(* the service behind it.  Requests share the cache of verification keys   *)
(* and the cells of the rate limiters (backend/crates/api-gateway/src).    *)
(*                                                                         *)
(* Each await of the code (a key fetch, a call of a service) is a step of  *)
(* its own, so requests interleave there; the timeout drops a request at   *)
(* any of them.                                                            *)
(***************************************************************************)
EXTENDS GatewayRoutes, KeyCache

CONSTANTS
  Requests,      \* slots for requests in flight
  Calls,         \* the routes that are called
  Deployments,   \* the sets of services that may be configured
  Peers,         \* client addresses
  Tokens,        \* bearer tokens: the kid of the header, and whether the
                 \* signature, issuer, audience and times check out
  IpBurst, GlobalBurst,  \* cells of the limiters
  None

\* What a configuration names; "ticket" stands for the key of WebSocket tickets.
Configurable == Services \cup {"ticket"}

ASSUME DeploymentsAreServices == Deployments \subseteq SUBSET Configurable
ASSUME CallsAreRoutes == Calls \subseteq Routes
ASSUME TokensAreTokens ==
  \A t \in Tokens : DOMAIN t = {"kid", "good"} /\ (t.good => t.kid \in Kids)
ASSUME NoneIsNothing == None \notin Tokens \cup Calls \cup Peers
ASSUME Quotas == IpBurst \in Nat \ {0} /\ GlobalBurst \in Nat \ {0}

VARIABLES
  config,    \* whether keys are local, and the services that are configured
  request,   \* what each request is at, or how the last one was answered
  ipCells,   \* cells left for each peer address
  cells,     \* cells left of the global limiter
  phase      \* the process: serving, draining after a signal, or stopped

vars == <<keyVars, config, request, ipCells, cells, phase>>

\* The slot of a request that was answered; of the status only whether it was
\* a success is kept.
Done(status) ==
  [stage |-> "done", call |-> None, peer |-> None, token |-> None,
   claims |-> None, keys |-> None, age |-> 0, ok |-> status < 400]

Request ==
  [stage : {"done"}, call : {None}, peer : {None}, token : {None}, claims : {None},
   keys : {None}, age : {0}, ok : BOOLEAN]
  \cup [stage : {"auth", "fetch", "limit", "upstream"}, call : Calls,
        peer : Peers, token : Tokens \cup {None}, claims : Tokens \cup {None},
        keys : {None} \cup SUBSET Kids, age : 0..FetchTimeout, ok : {FALSE}]

TypeOK ==
  /\ KeyTypeOK
  /\ config \in [local : BOOLEAN, services : SUBSET Configurable]
  /\ request \in [Requests -> Request]
  /\ ipCells \in [Peers -> 0..IpBurst]
  /\ cells \in 0..GlobalBurst
  /\ phase \in {"serving", "draining", "stopped"}

Init ==
  /\ KeyInit
  /\ config \in [local : BOOLEAN, services : Deployments]
  /\ request = [r \in Requests |-> Done(200)]
  /\ ipCells = [p \in Peers |-> IpBurst]
  /\ cells = GlobalBurst
  /\ phase = "serving"

\* The answer to a request, or its next stage; past the authentication the
\* token is not looked at any more.
Answer(r, status) == request' = [request EXCEPT ![r] = Done(status)]
Refuse(r, e) == Answer(r, HttpStatus(e))
Move(r, stage) == request' = [request EXCEPT ![r].stage = stage]
Pass(r, claims) ==
  request' = [request EXCEPT ![r] = [@ EXCEPT !.stage = "limit", !.token = None,
                                       !.claims = claims, !.keys = None, !.age = 0]]

Arrive(r) ==
  /\ phase = "serving"
  /\ request[r].stage = "done"
  /\ \E call \in Calls, peer \in Peers, token \in Tokens \cup {None} :
       request' = [request EXCEPT ![r] =
         [stage |-> "auth", call |-> call, peer |-> peer, token |-> token,
          claims |-> None, keys |-> None, age |-> 0, ok |-> FALSE]]
  /\ UNCHANGED <<keyVars, config, ipCells, cells, phase>>

-----------------------------------------------------------------------------
\* auth_layer and the verifiers.  It runs before the rate limits.

\* Mutant: a token that does not verify is only not given claims.
DecodeLenient(r) ==
  Pass(r, IF request[r].token.good THEN request[r].token ELSE None)

\* decode with the key that was found.
Decode(r) ==
  IF request[r].token.good THEN Pass(r, request[r].token)
  ELSE Refuse(r, "Unauthenticated")

\* JwtVerifier: a key shared out of band, or the cache of the published ones.
HasKey(kid) == config.local \/ Cached(kid)

AuthLayer(r) ==
  LET q == request[r] IN
  /\ q.stage = "auth"
  /\ \/ Public(q.call.path) /\ Pass(r, None)
     \/ ~Public(q.call.path) /\ q.token = None /\ Refuse(r, "Unauthenticated")
     \/ /\ ~Public(q.call.path) /\ q.token # None
        /\ \/ HasKey(q.token.kid) /\ Decode(r)
           \/ ~HasKey(q.token.kid) /\ Move(r, "fetch")
  /\ UNCHANGED <<keyVars, config, ipCells, cells, phase>>

\* The issuer answers the fetch of one request with the keys of that moment.
ServeKeys(r) ==
  /\ request[r].stage = "fetch"
  /\ request[r].keys = None
  /\ request' = [request EXCEPT ![r].keys = published]
  /\ UNCHANGED <<keyVars, config, ipCells, cells, phase>>

\* The rest of JwksCache::get after the answer: insert, then look again.
FetchDone(r) ==
  LET q == request[r] IN
  /\ q.stage = "fetch"
  /\ q.keys # None
  /\ Insert(q.keys)
  /\ IF q.token.kid \in Kids /\ cache'[q.token.kid] > 0
     THEN Decode(r) ELSE Refuse(r, "Unauthenticated")
  /\ UNCHANGED <<published, unlisted, config, ipCells, cells, phase>>

\* The fetch fails or runs into its timeout.
FetchFails(r) ==
  /\ request[r].stage = "fetch"
  /\ Refuse(r, "Unauthenticated")
  /\ UNCHANGED <<keyVars, config, ipCells, cells, phase>>

-----------------------------------------------------------------------------
\* The handler up to its first await.
Handle(r) ==
  LET call == request[r].call IN
  \/ call.service = "none" /\ Answer(r, call.ok)
  \/ call.rpc = "Logout" /\ Answer(r, call.ok)   \* no refresh token in the body
  \/ call.service = "missing" /\ Refuse(r, "UpstreamUnavailable")
  \/ call.service = "ticket" /\ "ticket" \in config.services /\ Answer(r, call.ok)
  \/ call.service \in Configurable \ config.services /\ Refuse(r, "UpstreamUnavailable")
  \/ call.service \in Services \cap config.services /\ Move(r, "upstream")
  \/ call.service = "counts" /\ Counted \cap config.services = {} /\ Answer(r, call.ok)
  \/ call.service = "counts" /\ Counted \cap config.services # {} /\ Move(r, "upstream")

\* rate_limit_layer: the address's cell is spent before the global one is
\* looked at.  A request that is let through is in its handler without an await.
RateLimit(r) ==
  LET peer == request[r].peer IN
  /\ request[r].stage = "limit"
  /\ \/ /\ ipCells[peer] = 0
        /\ Refuse(r, "RateLimited")
        /\ UNCHANGED <<ipCells, cells>>
     \/ /\ ipCells[peer] > 0
        /\ ipCells' = [ipCells EXCEPT ![peer] = @ - 1]
        /\ \/ cells = 0 /\ Refuse(r, "RateLimited") /\ UNCHANGED cells
           \/ cells > 0 /\ cells' = cells - 1 /\ Handle(r)
  /\ UNCHANGED <<keyVars, config, phase>>

\* The service answers, or the channel does (not connected, out of time); the
\* overview is answered whatever its calls come to.
UpstreamAnswers(r) ==
  /\ request[r].stage = "upstream"
  /\ \/ Answer(r, request[r].call.ok)
     \/ request[r].call.service \in Services /\ \E code \in Codes : Refuse(r, MapGrpc(code))
  /\ UNCHANGED <<keyVars, config, ipCells, cells, phase>>

\* Mutant: the timeout only covers the call of the service.
RequestTimeoutUpstream(r) ==
  /\ request[r].stage = "upstream"
  /\ Answer(r, 408)
  /\ UNCHANGED <<keyVars, config, ipCells, cells, phase>>

\* The timeout layer drops the request wherever it is waiting.
RequestTimeout(r) ==
  /\ request[r].stage # "done"
  /\ Answer(r, 408)
  /\ UNCHANGED <<keyVars, config, ipCells, cells, phase>>

-----------------------------------------------------------------------------
\* The clock: keys age, cells come back, and fetches come nearer their timeout
\* (which is urgent: no tick passes a fetch that has used its time up).
Tick ==
  /\ phase # "stopped"
  /\ \A r \in Requests : request[r].stage = "fetch" => request[r].age < FetchTimeout
  /\ AgeKeys
  /\ request' = [r \in Requests |->
       IF request[r].stage = "fetch" THEN [request[r] EXCEPT !.age = @ + 1]
       ELSE request[r]]
  /\ ipCells' = [p \in Peers |-> IF ipCells[p] < IpBurst THEN ipCells[p] + 1
                                 ELSE IpBurst]
  /\ cells' = IF cells < GlobalBurst THEN cells + 1 ELSE GlobalBurst
  /\ UNCHANGED <<published, config, phase>>

RotateKeys == Rotate /\ UNCHANGED <<config, request, ipCells, cells, phase>>

\* shutdown_signal: no more requests are taken in, those in flight go on.
Signal ==
  /\ phase = "serving"
  /\ phase' = "draining"
  /\ UNCHANGED <<keyVars, config, request, ipCells, cells>>

Stop ==
  /\ phase = "draining"
  /\ \A r \in Requests : request[r].stage = "done"
  /\ phase' = "stopped"
  /\ UNCHANGED <<keyVars, config, request, ipCells, cells>>

Next ==
  \/ Tick \/ RotateKeys \/ Signal \/ Stop
  \/ \E r \in Requests :
       \/ Arrive(r) \/ AuthLayer(r) \/ ServeKeys(r) \/ FetchDone(r) \/ FetchFails(r)
       \/ RateLimit(r) \/ UpstreamAnswers(r) \/ RequestTimeout(r)

Spec == Init /\ [][Next]_vars

\* The runtime fires the timer of the timeout layer, and axum returns once the
\* last connection is done.  Nothing is assumed of the issuer or the services.
Fairness ==
  /\ \A r \in Requests : WF_vars(RequestTimeout(r))
  /\ WF_vars(Stop)

FairSpec == Spec /\ Fairness

-----------------------------------------------------------------------------
\* The list of public prefixes, the order of the layers and the handlers'
\* signatures are in three files: a handler that extracts Claims is only
\* reached with the claims of a token that checks out.
ClaimsAreVerified ==
  \A r \in Requests :
    LET q == request[r] IN
    q.stage \in {"limit", "upstream"} =>
      /\ q.call.claims => q.claims # None
      /\ q.claims # None => q.claims.good

\* Whatever error a service answers a forwarded request with, the client gets the
\* status the platform gives that error, although it is turned into a gRPC code
\* and guessed back.
ErrorsSurviveTwoHops ==
  \A r \in Requests, e \in Errors :
    request[r].stage = "upstream" /\ request[r].call.service \in Services =>
      HttpStatus(MapGrpc(GrpcStatus(e))) = HttpStatus(e)

\* After the shutdown signal the gateway stops, whatever the issuer and the
\* services do with the calls that are open.
ShutdownDrains == (phase = "draining") ~> (phase = "stopped")
=============================================================================
