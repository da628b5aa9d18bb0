---------------------------- MODULE SessionFamily ----------------------------
(***************************************************************************)
(* What the auth service promises about a login session, said without      *)
(* tables or statements: a session is a baton.  It is born owing its       *)
(* client a token; the one token it has handed out is exchanged for the    *)
(* next one, and a session that ended, because its client logged out, a    *)
(* token was reused or an exchange was lost half-way, never hands out a    *)
(* token again.                                                            *)
(***************************************************************************)
CONSTANTS Sessions, Tokens, Null

VARIABLES
  phase,    \* where each session is in its life
  holder,   \* the token that can be exchanged, if there is one
  used      \* tokens that were handed out at some time

vars == <<phase, holder, used>>

Init ==
  /\ phase = [s \in Sessions |-> "unborn"]
  /\ holder = [s \in Sessions |-> Null]
  /\ used = {}

\* A login creates the session and owes it a token.
Open(s) ==
  /\ phase[s] = "unborn"
  /\ phase' = [phase EXCEPT ![s] = "owed"]
  /\ UNCHANGED <<holder, used>>

\* The token that is owed is issued; it is a fresh one.
Grant(s, t) ==
  /\ phase[s] = "owed"
  /\ t \notin used
  /\ phase' = [phase EXCEPT ![s] = "held"]
  /\ holder' = [holder EXCEPT ![s] = t]
  /\ used' = used \cup {t}

\* The token is given up in exchange for one that is owed.
Exchange(s) ==
  /\ phase[s] = "held"
  /\ phase' = [phase EXCEPT ![s] = "owed"]
  /\ holder' = [holder EXCEPT ![s] = Null]
  /\ UNCHANGED used

\* Logout, detected reuse, or an exchange that was cut short.
End(s) ==
  /\ phase[s] \in {"owed", "held"}
  /\ phase' = [phase EXCEPT ![s] = "over"]
  /\ holder' = [holder EXCEPT ![s] = Null]
  /\ UNCHANGED used

\* An account is deleted with all its sessions.
Delete(S) ==
  /\ phase' = [s \in Sessions |-> IF s \in S THEN "deleted" ELSE phase[s]]
  /\ holder' = [s \in Sessions |-> IF s \in S THEN Null ELSE holder[s]]
  /\ UNCHANGED used

Next ==
  \/ \E s \in Sessions :
       \/ Open(s)
       \/ \E t \in Tokens : Grant(s, t)
       \/ Exchange(s)
       \/ End(s)
  \/ \E S \in SUBSET {s \in Sessions : phase[s] \notin {"unborn", "deleted"}} :
       Delete(S)

Spec == Init /\ [][Next]_vars
=============================================================================
