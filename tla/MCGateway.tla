----------------------------- MODULE MCGateway ------------------------------
\* Model checking of Gateway.
EXTENDS Gateway

CONSTANTS k1, k2

\* One token that verifies, and one of an unknown key.
MCTokens == {[kid |-> k1, good |-> TRUE], [kid |-> k2, good |-> FALSE]}

\* Everything is configured, or nothing that the calls below ask for.
MCDeployments == {Configurable, {"ai", "notify"}}

\* Routes for every way a handler ends, public and private.
MCCalls == {Live, AuthLogout, MeGet, WsTicket, AiRunStream, StatsOverview}
=============================================================================
