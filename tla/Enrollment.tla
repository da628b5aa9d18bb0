------------------------------ MODULE Enrollment ------------------------------
(***************************************************************************)
(* How a device comes to exist: the handlers create_enrollment and enroll  *)
(* of backend/crates/device-service/src/grpc.rs over the tables            *)
(* device.enrollment_codes and device.devices.                             *)
(*                                                                         *)
(* enroll is the one handler of the system that runs several statements in *)
(* one transaction.  Of Postgres the module keeps what enroll relies on:   *)
(* an UPDATE waits for the transaction that holds the row and then looks   *)
(* at the row again, now() is the time at which the transaction began, and *)
(* nothing is visible to others before the commit.                         *)
(***************************************************************************)
CONSTANTS
  Devices,     \* pool of device ids
  Codes,       \* pool of enrollment codes
  Enrollers,   \* calls of enroll that can be in flight
  Null

ASSUME NullIsNoId == Null \notin Devices \cup Codes

VARIABLES
  issued,      \* device.enrollment_codes: the codes that have a row
  stale,       \* codes whose expires_at has passed
  consumed,    \* codes whose committed consumed_at is set
  enrolledBy,  \* the code each device.devices row was inserted for
  call,        \* what each call of enroll is doing
  jwt          \* devices whose agent holds a device JWT that has not expired

enrollmentVars == <<issued, stale, consumed, enrolledBy, call, jwt>>

NoCall == [pc |-> "idle", code |-> Null, device |-> Null]

Call ==
  {NoCall}
  \cup [pc : {"claim", "insert"}, code : Codes, device : {Null}]
  \cup [pc : {"reply"}, code : Codes, device : Devices]

EnrollmentTypeOK ==
  /\ issued \subseteq Codes
  /\ stale \subseteq Codes
  /\ consumed \subseteq Codes
  /\ enrolledBy \in [Devices -> Codes \cup {Null}]
  /\ call \in [Enrollers -> Call]
  /\ jwt \subseteq Devices

EnrollmentInit ==
  /\ issued = {}
  /\ stale = {}
  /\ consumed = {}
  /\ enrolledBy = [d \in Devices |-> Null]
  /\ call = [e \in Enrollers |-> NoCall]
  /\ jwt = {}

-----------------------------------------------------------------------------
\* create_enrollment: one INSERT.
CreateEnrollment(c) ==
  /\ c \notin issued
  /\ issued' = issued \cup {c}
  /\ UNCHANGED <<stale, consumed, enrolledBy, call, jwt>>

\* expires_at has passed.
ExpireCode(c) ==
  /\ c \in issued \ stale
  /\ stale' = stale \cup {c}
  /\ UNCHANGED <<issued, consumed, enrolledBy, call, jwt>>

\* Mutant: nobody looks at expires_at.
BeginExpired(e, c) ==
  /\ call[e] = NoCall
  /\ call' = [call EXCEPT ![e] = [pc |-> "claim", code |-> c, device |-> Null]]
  /\ UNCHANGED <<issued, stale, consumed, enrolledBy, jwt>>

\* enroll opens its transaction, which fixes now().  A code that has expired by
\* then is going to be refused: no effect, a stuttering step.
Begin(e, c) ==
  /\ call[e] = NoCall
  /\ c \notin stale
  /\ call' = [call EXCEPT ![e] = [pc |-> "claim", code |-> c, device |-> Null]]
  /\ UNCHANGED <<issued, stale, consumed, enrolledBy, jwt>>

\* The calls whose open transaction has updated the row of code c.
LockHolders(c) == {e \in Enrollers : call[e].pc = "insert" /\ call[e].code = c}

\* Mutant of Claim: the code is read without waiting for the transaction that is
\* consuming it.
ClaimUnlocked(e) ==
  /\ call[e].pc = "claim"
  /\ call[e].code \in issued \ consumed
  /\ call' = [call EXCEPT ![e].pc = "insert"]
  /\ UNCHANGED <<issued, stale, consumed, enrolledBy, jwt>>

\* UPDATE ... SET consumed_at WHERE code = $1 AND consumed_at IS NULL AND
\* expires_at > now() RETURNING ...: waits for the row, updates it, keeps it.
\* When no row matches the call is refused, which is Abort.
Claim(e) ==
  /\ call[e].pc = "claim"
  /\ call[e].code \in issued \ consumed
  /\ LockHolders(call[e].code) = {}
  /\ call' = [call EXCEPT ![e].pc = "insert"]
  /\ UNCHANGED <<issued, stale, consumed, enrolledBy, jwt>>

\* INSERT INTO device.devices and COMMIT: the row of the device and the
\* consumed code become visible together.  The id is a fresh ULID.
Commit(e) ==
  /\ call[e].pc = "insert"
  /\ consumed' = consumed \cup {call[e].code}
  /\ \E d \in Devices :
       /\ enrolledBy[d] = Null
       /\ enrolledBy' = [enrolledBy EXCEPT ![d] = call[e].code]
       /\ call' = [call EXCEPT ![e].pc = "reply", ![e].device = d]
  /\ UNCHANGED <<issued, stale, jwt>>

\* The device JWT is signed and the answer reaches the agent.
Deliver(e) ==
  /\ call[e].pc = "reply"
  /\ jwt' = jwt \cup {call[e].device}
  /\ call' = [call EXCEPT ![e] = NoCall]
  /\ UNCHANGED <<issued, stale, consumed, enrolledBy>>

\* Mutant of Abort: the UPDATE is not part of the transaction.
AbortAfterUpdate(e) ==
  /\ call[e] # NoCall
  /\ consumed' = IF call[e].pc = "insert" THEN consumed \cup {call[e].code}
                                          ELSE consumed
  /\ call' = [call EXCEPT ![e] = NoCall]
  /\ UNCHANGED <<issued, stale, enrolledBy, jwt>>

\* The call ends without an answer that reaches the agent: a refused code, an
\* error returned by `?`, a cancelled call, a crash.  Before the commit the
\* transaction is rolled back; after it the device is there and its JWT lost.
Abort(e) ==
  /\ call[e] # NoCall
  /\ call' = [call EXCEPT ![e] = NoCall]
  /\ UNCHANGED <<issued, stale, consumed, enrolledBy, jwt>>

\* device_jwt.ttl_s has passed; there is no call that renews the JWT.
ExpireJwt(d) ==
  /\ d \in jwt
  /\ jwt' = jwt \ {d}
  /\ UNCHANGED <<issued, stale, consumed, enrolledBy, call>>

EnrollmentNext ==
  \/ \E c \in Codes : CreateEnrollment(c) \/ ExpireCode(c)
  \/ \E e \in Enrollers :
       \/ \E c \in Codes : Begin(e, c)
       \/ Claim(e)
       \/ Commit(e)
       \/ Deliver(e)
       \/ Abort(e)
  \/ \E d \in Devices : ExpireJwt(d)

-----------------------------------------------------------------------------
Enrolled == {d \in Devices : enrolledBy[d] # Null}

\* "Atomic claim of the code": however many calls present one code at once,
\* and wherever they fail, it makes at most one device.
CodeEnrollsOnce ==
  \A d, e \in Enrolled : enrolledBy[d] = enrolledBy[e] => d = e

\* A code is spent exactly when there is a device it made: a call that fails
\* before its commit leaves the code usable.
SpentCodesMadeDevices == consumed = {enrolledBy[d] : d \in Enrolled}

\* Why the two hold at every commit: one open transaction holds the row of a
\* code, and it found the code unspent.
EnrollmentInv ==
  /\ CodeEnrollsOnce
  /\ SpentCodesMadeDevices
  /\ \A c \in Codes : \A e, f \in LockHolders(c) : e = f
  /\ \A c \in consumed : LockHolders(c) = {}

\* The calls that presented code c in time and can still redeem it; those that owe
\* device d its JWT.
Presenting(c) == {e \in Enrollers : call[e].pc \in {"claim", "insert"} /\ call[e].code = c}
Owing(d) == {e \in Enrollers : call[e].pc = "reply" /\ call[e].device = d}

\* A code is void once it has expired and nobody who presented it in time is left.
CodeState(c) ==
  IF c \in consumed THEN "spent"
  ELSE IF c \notin issued THEN "none"
  ELSE IF c \in stale /\ Presenting(c) = {} THEN "void" ELSE "open"

\* A device whose JWT expired, or is owed by no call any more, never gets another.
DeviceState(d) ==
  IF enrolledBy[d] = Null THEN "none"
  ELSE IF d \in jwt THEN "equipped"
  ELSE IF Owing(d) # {} THEN "owed" ELSE "stranded"

V == INSTANCE Voucher WITH code <- [c \in Codes |-> CodeState(c)],
                           device <- [d \in Devices |-> DeviceState(d)],
                           madeBy <- enrolledBy

\* However calls of enroll overlap, wait for each other and end half-way, a code is
\* redeemed in one step or not at all, not after it expired unless it was presented
\* before, and a device is handed its JWT at most once.
ImplementsVoucher == V!Spec

=============================================================================
