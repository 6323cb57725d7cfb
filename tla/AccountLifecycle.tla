-------------------------- MODULE AccountLifecycle --------------------------
(***************************************************************************)
(* What the account endpoints promise of one e-mail address: its account   *)
(* ids are created in order, each is pending until its holder proves the   *)
(* address, active from then on, and gone for good once deleted.           *)
(***************************************************************************)
EXTENDS Naturals

VARIABLES id,    \* the id of the latest account of the address, 0 before the first
          phase  \* "none", "pending" or "active": what has become of it

vars == <<id, phase>>

Init == id = 0 /\ phase = "none"

Register == phase = "none" /\ id' = id + 1 /\ phase' = "pending"
Activate == phase = "pending" /\ phase' = "active" /\ UNCHANGED id
Delete   == phase # "none" /\ phase' = "none" /\ UNCHANGED id

Next == Register \/ Activate \/ Delete

Spec == Init /\ [][Next]_vars
=============================================================================
