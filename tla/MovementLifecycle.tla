-------------------------- MODULE MovementLifecycle --------------------------
(***************************************************************************)
(* What the cash movement service promises of a movement's status:         *)
(* a movement is created PENDING, a pending movement is approved or        *)
(* rejected once, and an approved one is delivered.  The promise is the    *)
(* pair of error messages of CashMovementsService: "Only pending movements *)
(* can be approved or rejected" and "Only approved movements can be marked *)
(* as delivered".                                                          *)
(***************************************************************************)
CONSTANT Movements

VARIABLE status

Absent == "ABSENT"

LifecycleTypeOK ==
  status \in [Movements -> {Absent, "PENDING", "APPROVED", "REJECTED", "DELIVERED"}]

Init == status = [m \in Movements |-> Absent]

Move(m, from, to) ==
  /\ status[m] = from
  /\ status' = [status EXCEPT ![m] = to]

Create(m)  == Move(m, Absent, "PENDING")
Approve(m) == Move(m, "PENDING", "APPROVED")
Reject(m)  == Move(m, "PENDING", "REJECTED")
Deliver(m) == Move(m, "APPROVED", "DELIVERED")

Next == \E m \in Movements : Create(m) \/ Approve(m) \/ Reject(m) \/ Deliver(m)

Spec == Init /\ [][Next]_status
=============================================================================
