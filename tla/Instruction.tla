---------------------------- MODULE Instruction ----------------------------
(***************************************************************************)
(* What a ticket promises of every instruction sent to a session           *)
(* (src/rc/ticket.rs): if its caller is told that nothing happened, it was *)
(* never executed and never will be.                                       *)
(***************************************************************************)
CONSTANT Requests

VARIABLES
    ran,      \* instructions handed to the harness
    withdrawn \* instructions whose caller was told that nothing happened

vars == <<ran, withdrawn>>

Init == ran = {} /\ withdrawn = {}

Run(id) ==
    /\ id \notin ran \cup withdrawn
    /\ ran' = ran \cup {id}
    /\ UNCHANGED withdrawn

Withdraw(id) ==
    /\ id \notin ran \cup withdrawn
    /\ withdrawn' = withdrawn \cup {id}
    /\ UNCHANGED ran

Next == \E id \in Requests : Run(id) \/ Withdraw(id)

Spec == Init /\ [][Next]_vars

=============================================================================
