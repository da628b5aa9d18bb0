----------------------------- MODULE MCAccounts -----------------------------
\* Model checking of Accounts.
EXTENDS Accounts, TLC

CONSTANTS t1, t2, u1, u2, u3, e1, e2, p1, p2

MCSeed == [id |-> u1, tenant |-> t1, email |-> e1, secret |-> p1]
Symmetry == Permutations(Handlers) \cup Permutations({u2, u3})
=============================================================================
