----------------------------- MODULE MCAgentLoop -----------------------------
\* Model checking of AgentLoop, with reports that reach a limit, pass it, and
\* saturate.
EXTENDS AgentLoop

MCReports == {0, 1, Top}
=============================================================================
