---------------------------- MODULE IncidentLog ----------------------------
(***************************************************************************)
(* What the emergency service promises about one building, with the        *)
(* transactions, locks, requests and caches of the code left out: a list   *)
(* of incidents of which at most the newest is open, an alarm that is on   *)
(* exactly while one is open, and closed incidents that never change.      *)
(***************************************************************************)
EXTENDS Naturals, Sequences

CONSTANTS Message, NoMessage

VARIABLES
  alarm,      \* the building is in emergency mode
  standing,   \* the message the building shows
  incidents   \* every incident so far, oldest first

vars == <<alarm, standing, incidents>>

Incident == [status : {"ACTIVE", "RESOLVED"}, message : Message \cup {NoMessage},
             scanned : Nat]

Init ==
  /\ alarm = FALSE
  /\ standing \in Message \cup {NoMessage}
  /\ incidents = <<>>

(* Turn the alarm on: a new incident opens with the message shown.         *)
Start ==
  /\ ~ alarm
  /\ alarm' = TRUE
  /\ standing' \in Message \cup {standing}
  /\ incidents' = Append(incidents, [status |-> "ACTIVE", message |-> standing',
                                     scanned |-> 0])

(* A new message, for the open incident if there is one.                   *)
Amend ==
  /\ standing' \in Message
  /\ incidents' = IF alarm
                  THEN [incidents EXCEPT ![Len(incidents)].message = standing']
                  ELSE incidents
  /\ UNCHANGED alarm

(* An occupant's report counts for the open incident, or not at all.       *)
Report ==
  /\ alarm
  /\ incidents' = [incidents EXCEPT ![Len(incidents)].scanned = @ + 1]
  /\ UNCHANGED <<alarm, standing>>

(* Turn the alarm off and close the incident.                              *)
End ==
  /\ alarm
  /\ alarm' = FALSE
  /\ incidents' = [incidents EXCEPT ![Len(incidents)].status = "RESOLVED"]
  /\ UNCHANGED standing

Next == Start \/ Amend \/ Report \/ End

Spec == Init /\ [][Next]_vars

=============================================================================
