------------------------------ MODULE MCCFPool ------------------------------
(* Instances of CFPool for TLC. *)
EXTENDS CFPool, TLC

\* The IPs and the checks are interchangeable: sound for invariants.
Symmetry == Permutations(IP) \cup Permutations(Job)
=============================================================================
