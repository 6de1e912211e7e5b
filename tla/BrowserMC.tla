----------------------------- MODULE BrowserMC -----------------------------
(* Values of Browser's constants for TLC. *)
EXTENDS Browser, TLC

CONSTANTS t1, t2, ann, ben, buyIn, o1, o2

\* Ben signs in and out on Ann's computer.
OneOwner == [i \in {buyIn} |-> ann]
Symmetry == Permutations(Tabs) \cup Permutations(Operations)
============================================================================
