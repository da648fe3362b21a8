-------------------------- MODULE MCEmergencyOrder --------------------------
(* One admin triggers, one repeats the trigger with a message, one         *)
(* resolves; nobody polls.                                                 *)
EXTENDS Emergency
=============================================================================
