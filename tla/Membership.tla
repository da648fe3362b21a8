----------------------------- MODULE Membership -----------------------------
(***************************************************************************)
(* Who belongs to a building: invites (inviteService.js, routes/buildings/   *)
(* invites.js), members (members.js) and roles (roles.js), each behind the    *)
(* permission middleware (requireBuildingPermission.js).                     *)
(*                                                                         *)
(* Requests run concurrently; every query ends a step, and what a request    *)
(* has read (job[p].may, job[p].row) may be stale when it writes.  A          *)
(* transaction takes effect at its commit; a foreign key that restricts makes *)
(* the commit fail.  A user stands for its e-mail address.                    *)
(***************************************************************************)
EXTENDS Integers, FiniteSets

CONSTANTS
  Clerk,        \* the requests under way at a time
  User,         \* the users apart from the owner
  Owner,
  Permission,   \* the permission keys, "invite" and "roles" among them
  Sets,         \* the sets of them a role of the building's own may have
  RoleId,       \* the ids roles may have
  SystemRole,   \* those seeded with the building
  MaxAsked,     \* how many requests are served (bound)
  MaxInvites    \* how many invites are made (bound)

ASSUME MembershipBounds ==
  /\ {"invite", "roles"} \subseteq Permission /\ SystemRole \subseteq RoleId /\ Owner \notin User
  /\ Sets \subseteq SUBSET Permission
  /\ MaxAsked \in Nat /\ MaxInvites \in Nat

VARIABLES
  roles,     \* what the roles there are permit
  retired,   \* the ids of deleted roles: none comes back
  members,   \* the members' roles, each under the number of its row
  invites,   \* the invites made so far
  mailed,    \* the links that reached their recipient: invite and token
  job,       \* the requests under way
  asked,     \* how many requests have come (bound)
  joined,    \* how many membership rows were ever made
  stuck      \* the invites whose request died, or was resent in vain

memberVars == <<roles, retired, members, invites, mailed, job, asked, joined, stuck>>

Free == [op |-> "none"]
Anyone == User \cup {Owner}

\* What may come, and who asks.  An invite is accepted from the link in the mail.
Asked ==
       [op : {"invite"}, by : Anyone, to : Anyone, role : DOMAIN roles]
  \cup [op : {"resend", "revoke"}, by : Anyone, invite : DOMAIN invites]
  \cup [op : {"accept"}, by : User, link : mailed]
  \cup [op : {"create role"}, by : Anyone, permissions : Sets]
  \cup [op : {"edit role"}, by : Anyone, role : DOMAIN roles, permissions : Sets]
  \cup [op : {"delete role"}, by : Anyone, role : DOMAIN roles]
  \cup [op : {"assign"}, by : Anyone, user : Anyone, role : DOMAIN roles]
  \cup [op : {"remove"}, by : Anyone, user : Anyone]

(***************************************************************************)
(* The steps of a request                                                   *)
(***************************************************************************)

Step(p, step) == job[p].op # "none" /\ job[p].at = step
Onward(p, step) == job' = [job EXCEPT ![p].at = step]
End(p) == job' = [job EXCEPT ![p] = Free]
q(p) == job[p].ask

\* The rows but the members and the invites; a request that only reads.
Reads == UNCHANGED <<roles, retired, members, invites, mailed, asked, joined, stuck>>

\* The context the middleware loads: the permissions of the one who asks.
PermissionsOf(u) ==
  CASE u = Owner -> Permission
    [] u \in DOMAIN members -> roles[members[u].role]
    [] OTHER -> {}

Required(op) == IF op \in {"invite", "resend", "revoke"} THEN {"invite"}
                ELSE IF op = "remove" THEN {} ELSE {"roles"}

Ask(p, ask) ==
  /\ job[p] = Free /\ asked < MaxAsked
  /\ asked' = asked + 1
  /\ job' = [job EXCEPT ![p] = [op |-> ask.op, ask |-> ask, may |-> {}, row |-> 0, token |-> 0, seen |-> {},
               at |-> IF ask.op = "accept" THEN "look" ELSE "guard"]]
  /\ UNCHANGED <<roles, retired, members, invites, mailed, joined, stuck>>

\* Removing a member asks for membership only, the rest for a permission.
Guard(p) ==
  LET by == q(p).by
      op == job[p].op
      let == /\ Required(op) \subseteq PermissionsOf(by)
             /\ by = Owner \/ by \in DOMAIN members
             /\ op = "assign" => q(p).user # Owner /\ (q(p).user = by => by = Owner)
             /\ op = "remove" => q(p).user # Owner /\ (q(p).user = by \/ "roles" \in PermissionsOf(by))
             /\ op = "create role" => q(p).permissions \subseteq PermissionsOf(by)
  IN
  /\ Step(p, "guard")
  /\ IF let
     THEN job' = [job EXCEPT ![p].may = PermissionsOf(by),
                             ![p].at = IF op \in {"create role", "revoke"} THEN "write" ELSE "look"]
     ELSE End(p)
  /\ Reads

\* An error of the database or the mail provider ends the request where it is;
\* an invite that was made or replaced and not yet mailed stays as it is.
Fail(p) ==
  /\ job[p] # Free /\ End(p)
  /\ stuck' = IF job[p].at \in {"mail", "undo"} THEN stuck \cup {job[p].row} ELSE stuck
  /\ UNCHANGED <<roles, retired, members, invites, mailed, asked, joined>>

(***************************************************************************)
(* What a request reads and decides on                                      *)
(***************************************************************************)

Pending(i) == invites[i].status = "PENDING"
Grants(p, role) == role \in DOMAIN roles /\ roles[role] \subseteq job[p].may
MayLeave(p) == q(p).user = q(p).by

Allowed(p) ==
  LET op == job[p].op
  IN CASE op = "invite" -> Grants(p, q(p).role)
       [] op = "resend" -> Pending(q(p).invite) /\ Grants(p, invites[q(p).invite].role)
       [] op = "accept" -> LET i == q(p).link[1]
                           IN /\ Pending(i) /\ ~invites[i].expired /\ invites[i].token = q(p).link[2]
                              /\ invites[i].to = q(p).by
       [] op = "edit role" -> /\ Grants(p, q(p).role) /\ q(p).permissions \subseteq job[p].may
                              /\ q(p).role \in SystemRole => q(p).by = Owner
       [] op = "delete role" -> /\ Grants(p, q(p).role) /\ q(p).role \notin SystemRole
                                /\ \A u \in DOMAIN members : members[u].role # q(p).role
       [] op = "assign" -> /\ q(p).user \in DOMAIN members /\ Grants(p, members[q(p).user].role)
                           /\ Grants(p, q(p).role)
       [] op = "remove" -> /\ q(p).user \in DOMAIN members
                           /\ MayLeave(p) \/ Grants(p, members[q(p).user].role)

\* The row a request goes on with: an invite's, or a membership's.
RowOf(p) ==
  CASE job[p].op = "resend" -> q(p).invite
    [] job[p].op = "accept" -> q(p).link[1]
    [] job[p].op \in {"assign", "remove"} -> members[q(p).user].id
    [] OTHER -> 0

Look(p) ==
  /\ Step(p, "look")
  /\ IF Allowed(p)
     THEN job' = [job EXCEPT ![p].row = RowOf(p),
                             ![p].at = IF job[p].op = "invite" THEN "known" ELSE "write"]
     ELSE End(p)
  /\ Reads

\* The owner and the members are not invited.
Known(p) ==
  /\ Step(p, "known")
  /\ IF q(p).to = Owner \/ q(p).to \in DOMAIN members THEN End(p) ELSE Onward(p, "revoke")
  /\ Reads

(***************************************************************************)
(* Invites                                                                  *)
(***************************************************************************)

\* The transaction's first statement: the pending invites it finds, whose
\* revocation is committed with the new invite.
Revoking(p) ==
  /\ Step(p, "revoke")
  /\ job' = [job EXCEPT ![p].at = "write", ![p].seen = {i \in DOMAIN invites : Pending(i) /\ invites[i].to = q(p).to}]
  /\ Reads

CreateInvite(p) ==
  LET i == Cardinality(DOMAIN invites) + 1
  IN
  /\ Step(p, "write") /\ job[p].op = "invite" /\ i <= MaxInvites
  /\ IF q(p).role \notin DOMAIN roles THEN End(p) /\ UNCHANGED invites
     ELSE /\ invites' = [k \in DOMAIN invites \cup {i} |->
               CASE k = i -> [to |-> q(p).to, role |-> q(p).role, status |-> "PENDING", token |-> 0, expired |-> FALSE]
                 [] k # i /\ k \in job[p].seen /\ Pending(k) -> [invites[k] EXCEPT !.status = "REVOKED"]
                 [] OTHER -> invites[k]]
          /\ job' = [job EXCEPT ![p].at = "mail", ![p].row = i]
  /\ UNCHANGED <<roles, retired, members, mailed, asked, joined, stuck>>

\* A fresh token replaces the old one before it is mailed, and a fresh expiry.
Replace(p) ==
  LET i == job[p].row
  IN
  /\ Step(p, "write") /\ job[p].op = "resend"
  /\ IF invites[i].status = "GONE" THEN End(p) /\ UNCHANGED invites
     ELSE /\ invites' = [invites EXCEPT ![i].token = @ + 1, ![i].expired = FALSE]
          /\ job' = [job EXCEPT ![p].at = "mail", ![p].token = invites[i].token + 1]
  /\ UNCHANGED <<roles, retired, members, mailed, asked, joined, stuck>>

\* (mutant) an invite whose mail was refused is left as it is.
MailNoUndo(p) ==
  LET i == job[p].row
  IN
  /\ Step(p, "mail") /\ End(p)
  /\ \/ mailed' = mailed \cup {<<i, job[p].token>>} /\ UNCHANGED stuck
     \/ stuck' = (IF job[p].op = "resend" THEN stuck \cup {i} ELSE stuck) /\ UNCHANGED mailed
  /\ UNCHANGED <<roles, retired, members, invites, asked, joined>>

\* The link reaches its recipient, or the provider refuses it: an invite just
\* made is then taken back, one that was resent keeps the token nobody has.
Mail(p) ==
  LET i == job[p].row
  IN
  /\ Step(p, "mail")
  /\ \/ mailed' = mailed \cup {<<i, job[p].token>>} /\ End(p) /\ UNCHANGED stuck
     \/ job[p].op = "invite" /\ Onward(p, "undo") /\ UNCHANGED <<mailed, stuck>>
     \/ job[p].op = "resend" /\ End(p) /\ stuck' = stuck \cup {i} /\ UNCHANGED mailed
  /\ UNCHANGED <<roles, retired, members, invites, asked, joined>>

Undo(p) ==
  /\ Step(p, "undo") /\ End(p)
  /\ invites' = [invites EXCEPT ![job[p].row].status = "GONE"]
  /\ UNCHANGED <<roles, retired, members, mailed, asked, joined, stuck>>

Revoke(p) ==
  LET i == q(p).invite
  IN
  /\ Step(p, "write") /\ job[p].op = "revoke" /\ End(p)
  /\ invites' = IF Pending(i) THEN [invites EXCEPT ![i].status = "REVOKED"] ELSE invites
  /\ UNCHANGED <<roles, retired, members, mailed, asked, joined, stuck>>

\* The membership and the accepted invite are one transaction; nothing asks
\* again whether the invite is pending.  A member's role becomes the invite's.
Accept(p) ==
  LET i == job[p].row
      u == q(p).by
      row == [id |-> IF u \in DOMAIN members THEN members[u].id ELSE joined + 1, role |-> invites[i].role]
  IN
  /\ Step(p, "write") /\ job[p].op = "accept" /\ End(p)
  /\ IF invites[i].status = "GONE" \/ invites[i].role \notin DOMAIN roles
     THEN UNCHANGED <<members, invites, joined>>
     ELSE /\ members' = [v \in DOMAIN members \cup {u} |-> IF v = u THEN row ELSE members[v]]
          /\ invites' = [invites EXCEPT ![i].status = "ACCEPTED"]
          /\ joined' = IF u \in DOMAIN members THEN joined ELSE joined + 1
  /\ UNCHANGED <<roles, retired, mailed, asked, stuck>>

Lapse(i) ==
  /\ i \in DOMAIN invites /\ Pending(i) /\ ~invites[i].expired
  /\ invites' = [invites EXCEPT ![i].expired = TRUE]
  /\ UNCHANGED <<roles, retired, members, mailed, job, asked, joined, stuck>>

(***************************************************************************)
(* Roles and members                                                        *)
(***************************************************************************)

CreateRole(p) ==
  /\ Step(p, "write") /\ job[p].op = "create role" /\ End(p)
  /\ \E r \in RoleId \ (DOMAIN roles \cup retired) :
       roles' = [k \in DOMAIN roles \cup {r} |-> IF k = r THEN q(p).permissions ELSE roles[k]]
  /\ UNCHANGED <<retired, members, invites, mailed, asked, joined, stuck>>

EditRole(p) ==
  /\ Step(p, "write") /\ job[p].op = "edit role" /\ End(p)
  /\ roles' = [k \in DOMAIN roles |-> IF k = q(p).role THEN q(p).permissions ELSE roles[k]]
  /\ UNCHANGED <<retired, members, invites, mailed, asked, joined, stuck>>

\* (mutant) the members counted before the transaction decide.
DeleteRoleCounted(p) ==
  LET role == q(p).role
  IN
  /\ Step(p, "write") /\ job[p].op = "delete role" /\ End(p)
  /\ roles' = [k \in DOMAIN roles \ {role} |-> roles[k]] /\ retired' = retired \cup {role}
  /\ invites' = [i \in DOMAIN invites |-> IF invites[i].role = role THEN [invites[i] EXCEPT !.status = "GONE"]
                                          ELSE invites[i]]
  /\ UNCHANGED <<members, mailed, asked, joined, stuck>>

\* The role and its invites go together, unless a member has come to hold it
\* since they were counted: the foreign key then undoes both.
DeleteRole(p) ==
  LET role == q(p).role
  IN
  /\ Step(p, "write") /\ job[p].op = "delete role" /\ End(p)
  /\ IF \E u \in DOMAIN members : members[u].role = role THEN UNCHANGED <<roles, retired, invites>>
     ELSE /\ roles' = [k \in DOMAIN roles \ {role} |-> roles[k]] /\ retired' = retired \cup {role}
          /\ invites' = [i \in DOMAIN invites |-> IF invites[i].role = role
                           THEN [invites[i] EXCEPT !.status = "GONE"] ELSE invites[i]]
  /\ UNCHANGED <<members, mailed, asked, joined, stuck>>

\* The row the request read: gone when its member left meanwhile, come back or not.
Same(p) == q(p).user \in DOMAIN members /\ members[q(p).user].id = job[p].row

Assign(p) ==
  /\ Step(p, "write") /\ job[p].op = "assign" /\ End(p)
  /\ members' = IF Same(p) /\ q(p).role \in DOMAIN roles
                THEN [members EXCEPT ![q(p).user].role = q(p).role] ELSE members
  /\ UNCHANGED <<roles, retired, invites, mailed, asked, joined, stuck>>

RemoveMember(p) ==
  /\ Step(p, "write") /\ job[p].op = "remove" /\ End(p)
  /\ members' = IF Same(p) THEN [u \in DOMAIN members \ {q(p).user} |-> members[u]] ELSE members
  /\ UNCHANGED <<roles, retired, invites, mailed, asked, joined, stuck>>

(***************************************************************************)
(* A building with its seeded role and one of its own: every user but one is  *)
(* a member, and that one's invite was mailed                               *)
(***************************************************************************)

MembershipInit ==
  /\ LET custom == CHOOSE k \in RoleId \ SystemRole : TRUE
     IN \E own \in Sets :
          roles = [k \in SystemRole \cup {custom} |-> IF k = custom THEN own ELSE Permission]
  /\ \E to \in User, invited \in DOMAIN roles :
       /\ members \in [User \ {to} -> [id : {0}, role : DOMAIN roles]]
       /\ invites = [i \in {1} |-> [to |-> to, role |-> invited, status |-> "PENDING", token |-> 0, expired |-> FALSE]]
  /\ mailed = {<<1, 0>>} /\ job = [p \in Clerk |-> Free]
  /\ retired = {} /\ asked = 0 /\ joined = 0 /\ stuck = {}

ClerkStep(p) ==
  \/ \E ask \in Asked : Ask(p, ask)
  \/ Guard(p) \/ Fail(p) \/ Look(p) \/ Known(p) \/ Revoking(p) \/ CreateInvite(p) \/ Replace(p)
  \/ Mail(p) \/ Undo(p) \/ Revoke(p) \/ Accept(p)
  \/ CreateRole(p) \/ EditRole(p) \/ DeleteRole(p) \/ Assign(p) \/ RemoveMember(p)

MembershipNext == (\E p \in Clerk : ClerkStep(p)) \/ \E i \in DOMAIN invites : Lapse(i)

MembershipSpec == MembershipInit /\ [][MembershipNext]_memberVars

(***************************************************************************)
(* Properties                                                               *)
(***************************************************************************)

\* Whatever a role's deletion races with (an acceptance, an assignment, another
\* deletion), every member and every pending invite has a role that exists:
\* without one the permission middleware fails on each of the member's requests.
RolesStand ==
  /\ \A u \in DOMAIN members : members[u].role \in DOMAIN roles
  /\ \A i \in DOMAIN invites : Pending(i) => invites[i].role \in DOMAIN roles

\* A pending invite has a link that reached its recipient, or a request at work
\* on it: a refused mail takes back the invite it was for, and only an error
\* between the two steps, or a resend in vain, leaves one nobody can accept.
LinksArrive ==
  \A i \in DOMAIN invites :
    \/ ~Pending(i) \/ i \in stuck \/ <<i, invites[i].token>> \in mailed
    \/ \E p \in Clerk : job[p] # Free /\ job[p].at \in {"mail", "undo"} /\ job[p].row = i

=============================================================================
