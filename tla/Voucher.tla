------------------------------- MODULE Voucher -------------------------------
(***************************************************************************)
(* What the device service promises about enrollment, said without         *)
(* transactions, locks or calls: an enrollment code is a voucher for one   *)
(* device.  It is redeemed in one step, which makes the device, or it      *)
(* becomes void; a device is owed its credentials from that step on and is *)
(* handed them at most once.  What lapsed does not come back.              *)
(***************************************************************************)
CONSTANTS Codes, Devices, Null

VARIABLES
  code,     \* where each code is in its life
  device,   \* where each device is in its life
  madeBy    \* the code each device was made for

vars == <<code, device, madeBy>>

Init ==
  /\ code = [c \in Codes |-> "none"]
  /\ device = [d \in Devices |-> "none"]
  /\ madeBy = [d \in Devices |-> Null]

Issue(c) ==
  /\ code[c] = "none"
  /\ code' = [code EXCEPT ![c] = "open"]
  /\ UNCHANGED <<device, madeBy>>

\* The code is spent and the device is made.
Redeem(c, d) ==
  /\ code[c] = "open"
  /\ device[d] = "none"
  /\ code' = [code EXCEPT ![c] = "spent"]
  /\ device' = [device EXCEPT ![d] = "owed"]
  /\ madeBy' = [madeBy EXCEPT ![d] = c]

\* The device gets its credentials.
Hand(d) ==
  /\ device[d] = "owed"
  /\ device' = [device EXCEPT ![d] = "equipped"]
  /\ UNCHANGED <<code, madeBy>>

\* Codes become void; credentials expire or never reach their devices.
Lapse(C, D) ==
  /\ code' = [c \in Codes |-> IF c \in C THEN "void" ELSE code[c]]
  /\ device' = [d \in Devices |-> IF d \in D THEN "stranded" ELSE device[d]]
  /\ UNCHANGED madeBy

Next ==
  \/ \E c \in Codes : Issue(c) \/ \E d \in Devices : Redeem(c, d)
  \/ \E d \in Devices : Hand(d)
  \/ \E C \in SUBSET {c \in Codes : code[c] = "open"},
        D \in SUBSET {d \in Devices : device[d] \in {"owed", "equipped"}} : Lapse(C, D)

Spec == Init /\ [][Next]_vars
=============================================================================
