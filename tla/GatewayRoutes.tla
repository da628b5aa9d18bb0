---------------------------- MODULE GatewayRoutes ----------------------------
(***************************************************************************)
(* The static half of the API gateway: the routes it serves, which of them *)
(* are public, what each handler asks of which service, and how errors     *)
(* become gRPC codes, errors again and HTTP statuses                       *)
(* (backend/crates/api-gateway/src: routes.rs, middleware.rs;              *)
(* backend/libs/common/src/error.rs).                                      *)
(*                                                                         *)
(* A path is the sequence of its segments.  A handler is described by its  *)
(* route, whether it extracts the verified Claims, the service and RPC it  *)
(* calls, and the status of a success.  Request and response bodies are    *)
(* copied field by field in the code and left out.                         *)
(***************************************************************************)
EXTENDS Naturals, SequencesExt

Services == {"auth", "device", "ai", "workflow", "notify"}

\* A handler that forwards to an RPC in the name of the verified claims.
Private(method, path, service, rpc, ok) ==
  [method |-> method, path |-> path, claims |-> TRUE, service |-> service,
   rpc |-> rpc, ok |-> ok]

\* A handler that takes no claims: its RPC gets no context, or that of the body.
Anonymous(method, path, service, rpc, ok) ==
  [Private(method, path, service, rpc, ok) EXCEPT !.claims = FALSE]

Live == Anonymous("GET", <<"healthz", "live">>, "none", "none", 200)
Ready == Anonymous("GET", <<"healthz", "ready">>, "none", "none", 200)
\* main always starts the exporter.
Metrics == Anonymous("GET", <<"metrics">>, "none", "none", 200)
Jwks == Anonymous("GET", <<".well-known", "jwks.json">>, "auth", "Jwks", 200)

AuthLogin == Anonymous("POST", <<"v1", "auth", "login">>, "auth", "IssueTokens", 200)
AuthRefresh == Anonymous("POST", <<"v1", "auth", "refresh">>, "auth", "Refresh", 200)
\* A body without a refresh token is answered without calling the service.
AuthLogout == Anonymous("POST", <<"v1", "auth", "logout">>, "auth", "Logout", 204)
AuthRegister ==
  Anonymous("POST", <<"v1", "auth", "register">>, "auth", "Register", 200)
\* Issued by the gateway itself from the claims and its HMAC key.
WsTicket == Private("POST", <<"v1", "auth", "ws-ticket">>, "ticket", "none", 200)

MeGet == Private("GET", <<"v1", "users", "me">>, "auth", "GetMe", 200)
MeUpdate == Private("PATCH", <<"v1", "users", "me">>, "auth", "UpdateMe", 200)
MeDelete == Private("DELETE", <<"v1", "users", "me">>, "auth", "DeleteMe", 204)
MeChangePassword ==
  Private("POST", <<"v1", "users", "me", "password">>, "auth", "ChangePassword", 204)

TokensList == Private("GET", <<"v1", "tokens">>, "auth", "ListServiceTokens", 200)
TokensCreate == Private("POST", <<"v1", "tokens">>, "auth", "IssueServiceToken", 200)
TokenRevoke ==
  Private("DELETE", <<"v1", "tokens", ":id">>, "auth", "RevokeServiceToken", 204)

UsersListPending ==
  Private("GET", <<"v1", "users", "pending">>, "auth", "ListPendingUsers", 200)
UserApprove ==
  Private("POST", <<"v1", "users", ":id", "approve">>, "auth", "ApproveUser", 204)
UserReject ==
  Private("POST", <<"v1", "users", ":id", "reject">>, "auth", "RejectUser", 204)

DevicesList == Private("GET", <<"v1", "devices">>, "device", "ListDevices", 200)
DeviceGet == Private("GET", <<"v1", "devices", ":id">>, "device", "GetDevice", 200)
DeviceDelete ==
  Private("DELETE", <<"v1", "devices", ":id">>, "device", "DeleteDevice", 204)
DeviceEnroll ==
  Private("POST", <<"v1", "devices", "enrollments">>, "device", "CreateEnrollment", 200)

AiAgentsList == Private("GET", <<"v1", "ai", "agents">>, "ai", "ListAgents", 200)
AiAgentsCreate == Private("POST", <<"v1", "ai", "agents">>, "ai", "CreateAgent", 200)
AiRunStart ==
  Private("POST", <<"v1", "ai", "agents", ":id", "runs">>, "ai", "StartRun", 200)
\* Not wired: always answered as if the upstream were missing.
AiRunStream ==
  Anonymous("GET", <<"v1", "ai", "runs", ":id", "stream">>, "missing", "none", 200)

WfList == Private("GET", <<"v1", "workflows">>, "workflow", "ListInstances", 200)
WfCreate ==
  Private("POST", <<"v1", "workflows">>, "workflow", "CreateDefinition", 200)
WfStart ==
  Private("POST", <<"v1", "workflows", ":id", "instances">>,
          "workflow", "StartInstance", 200)
WfGet ==
  Private("GET", <<"v1", "workflows", "instances", ":id">>,
          "workflow", "GetInstance", 200)

NotifChannels ==
  Private("GET", <<"v1", "notifications", "channels">>, "notify", "ListChannels", 200)

\* Counts of two services, awaited together; one that fails counts as zero.
StatsOverview == Private("GET", <<"v1", "stats", "overview">>, "counts", "none", 200)
Counted == {"device", "workflow"}

Routes ==
  {Live, Ready, Metrics, Jwks, AuthLogin, AuthRefresh, AuthLogout, AuthRegister,
   WsTicket, MeGet, MeUpdate, MeDelete, MeChangePassword, TokensList, TokensCreate,
   TokenRevoke, UsersListPending, UserApprove, UserReject, DevicesList, DeviceGet,
   DeviceDelete, DeviceEnroll, AiAgentsList, AiAgentsCreate, AiRunStart, AiRunStream,
   WfList, WfCreate, WfStart, WfGet, NotifChannels, StatsOverview}

-----------------------------------------------------------------------------
\* Mutant: all of /v1/auth/ is public.
PublicPrefixesWide ==
  {<<"healthz">>, <<"readyz">>, <<"metrics">>, <<".well-known">>, <<"v1", "auth">>}

PublicPrefixes ==
  {<<"healthz">>, <<"readyz">>, <<"metrics">>, <<".well-known">>,
   <<"auth", "oidc">>, <<"v1", "auth", "login">>, <<"v1", "auth", "refresh">>,
   <<"v1", "auth", "logout">>, <<"v1", "auth", "register">>}

Public(path) == \E p \in PublicPrefixes : IsPrefix(p, path)

-----------------------------------------------------------------------------
\* The errors of the platform, their HTTP status and their gRPC code.

Errors == {"BadRequest", "Validation", "Unauthenticated", "Forbidden", "NotFound",
           "Conflict", "PreconditionFailed", "RateLimited", "UpstreamUnavailable",
           "Internal"}

HttpStatus(e) ==
  CASE e \in {"BadRequest", "Validation"} -> 400
    [] e = "Unauthenticated"     -> 401
    [] e = "Forbidden"           -> 403
    [] e = "NotFound"            -> 404
    [] e = "Conflict"            -> 409
    [] e = "PreconditionFailed"  -> 412
    [] e = "RateLimited"         -> 429
    [] e = "UpstreamUnavailable" -> 502
    [] e = "Internal"            -> 500

\* What a service answers for an error (map_err of the services).
GrpcStatus(e) ==
  CASE e \in {"BadRequest", "Validation"} -> "InvalidArgument"
    [] e = "Unauthenticated"     -> "Unauthenticated"
    [] e = "Forbidden"           -> "PermissionDenied"
    [] e = "NotFound"            -> "NotFound"
    [] e = "Conflict"            -> "AlreadyExists"
    [] e = "PreconditionFailed"  -> "FailedPrecondition"
    [] e = "RateLimited"         -> "ResourceExhausted"
    [] e = "UpstreamUnavailable" -> "Unavailable"
    [] e = "Internal"            -> "Internal"

Codes == {GrpcStatus(e) : e \in Errors}
           \cup {"OutOfRange", "DeadlineExceeded", "Unimplemented", "Cancelled"}

\* Mutant: AlreadyExists falls through to the catch-all.
MapGrpcNoConflict(code) ==
  CASE code \in {"InvalidArgument", "OutOfRange"}   -> "BadRequest"
    [] code = "Unauthenticated"                     -> "Unauthenticated"
    [] code = "PermissionDenied"                    -> "Forbidden"
    [] code = "NotFound"                            -> "NotFound"
    [] code = "FailedPrecondition"                  -> "PreconditionFailed"
    [] code = "ResourceExhausted"                   -> "RateLimited"
    [] code \in {"Unavailable", "DeadlineExceeded"} -> "UpstreamUnavailable"
    [] OTHER                                        -> "Internal"

\* The gateway's error for a code it is answered with.
MapGrpc(code) ==
  CASE code \in {"InvalidArgument", "OutOfRange"}   -> "BadRequest"
    [] code = "Unauthenticated"                     -> "Unauthenticated"
    [] code = "PermissionDenied"                    -> "Forbidden"
    [] code = "NotFound"                            -> "NotFound"
    [] code = "AlreadyExists"                       -> "Conflict"
    [] code = "FailedPrecondition"                  -> "PreconditionFailed"
    [] code = "ResourceExhausted"                   -> "RateLimited"
    [] code \in {"Unavailable", "DeadlineExceeded"} -> "UpstreamUnavailable"
    [] OTHER                                        -> "Internal"
=============================================================================
