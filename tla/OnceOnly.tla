------------------------------ MODULE OnceOnly ------------------------------
(***************************************************************************)
(* What a client may rely on about an operation id, whatever is lost,      *)
(* repeated or reordered: it is settled once, as saved or as cancelled,    *)
(* and every answer anybody ever gets about it is how it was settled       *)
(* (the contract stated in src/server/operation-recovery.ts, lines 28-31). *)
(***************************************************************************)
CONSTANT Ops

VARIABLES
    outcome,   \* how each operation was settled
    told       \* the answers given

vars == <<outcome, told>>

Init ==
    /\ outcome = [op \in Ops |-> "none"]
    /\ told = {}

Settle(op, as) ==
    /\ outcome[op] = "none"
    /\ outcome' = [outcome EXCEPT ![op] = as]
    /\ told' = told \cup {[op |-> op, result |-> as]}

Repeat(op) ==
    /\ outcome[op] # "none"
    /\ told' = told \cup {[op |-> op, result |-> outcome[op]]}
    /\ UNCHANGED outcome

Next == \E op \in Ops : Settle(op, "saved") \/ Settle(op, "cancelled") \/ Repeat(op)

Spec == Init /\ [][Next]_vars
=============================================================================
