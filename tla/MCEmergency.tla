---------------------------- MODULE MCEmergency ----------------------------
(* Three racing admin requests, one occupant and two polls.                *)
EXTENDS Emergency, TLC

Symmetric == Permutations(Admin) \cup Permutations(Poll)
=============================================================================
