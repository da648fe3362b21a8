--------------------------- MODULE Administration ---------------------------
(***************************************************************************)
(* What goes on behind the public routes: accounts, memberships and the     *)
(* editing of maps.  None reads what another writes but who a request comes  *)
(* from and may do, so a behaviour is of one of them.                        *)
(***************************************************************************)
EXTENDS Accounts, Membership, Editor

VARIABLE
  part   \* which of the three moves

adminVars == <<accountVars, memberVars, mapVars, part>>

\* The others at rest.
NoAccount ==
  /\ user = Idle /\ codes = <<>> /\ sessions = {} /\ proc = <<>> /\ served = 0 /\ wrong = <<>>
  /\ spared = <<>>
NoBuilding ==
  /\ roles = <<>> /\ retired = {} /\ members = <<>> /\ invites = <<>> /\ mailed = {} /\ job = <<>>
  /\ asked = 0 /\ joined = 0 /\ stuck = {}
NoMap ==
  /\ site = [status |-> "gone", owned |-> 0, extra |-> 0]
  /\ floors = <<>> /\ nodes = <<>> /\ edges = <<>> /\ last = 0 /\ uncounted = {}
  /\ edit = [e \in Editor |-> Rest] /\ changes = 0
  /\ graph = "none" /\ reading = [x \in Reader |-> "idle"] /\ missed = FALSE

AdminInit ==
  \/ part = "account" /\ AccountsInit /\ NoBuilding /\ NoMap
  \/ part = "membership" /\ MembershipInit /\ NoAccount /\ NoMap
  \/ part = "map" /\ MapInit /\ NoAccount /\ NoBuilding

AdminNext ==
  /\ UNCHANGED part
  /\ \/ part = "account" /\ AccountsNext /\ UNCHANGED <<memberVars, mapVars>>
     \/ part = "membership" /\ MembershipNext /\ UNCHANGED <<accountVars, mapVars>>
     \/ part = "map" /\ MapNext /\ UNCHANGED <<accountVars, memberVars>>

AdminSpec == AdminInit /\ [][AdminNext]_adminVars

=============================================================================
