---------------------------- MODULE AccessProofs ----------------------------
(***************************************************************************)
(* Who may do what.  For any passwords, addresses and codes, and any number   *)
(* of requests at work on an account at a time: a session ends with the       *)
(* password it was opened under, and only a deletion that failed lets a code   *)
(* survive its last wrong guess.                                             *)
(* For any users, roles, invites and requests of a building: members and      *)
(* pending invites have a role that exists, and a pending invite's link has   *)
(* reached its recipient or is on its way.                                   *)
(***************************************************************************)
EXTENDS Accounts, Membership, FiniteSetTheorems, TLAPS

(***************************************************************************)
(* Accounts                                                                 *)
(***************************************************************************)

IsRow(u) ==
  /\ u = [id |-> u.id, exists |-> u.exists, password |-> u.password, version |-> u.version,
          two |-> u.two, trusted |-> u.trusted, verified |-> u.verified, email |-> u.email]
  /\ u.id \in Nat /\ u.version \in Nat

IsRequest(x) == x = [op |-> x.op, req |-> x.req, user |-> x.user, row |-> x.row, at |-> x.at]

\* A row, or a token, that is no newer than the row v: of an account before it,
\* of an older version of its password, or of the password it has.
Since(u, v) ==
  /\ u.id \in Nat /\ u.version \in Nat /\ u.id <= v.id
  /\ u.id = v.id => u.version <= v.version
  /\ u.id = v.id /\ u.version = v.version => u.password = v.password

\* What a step may make of the account: a successor, a new password with a new
\* version, or a row with the same password.
Later(v, w) ==
  \/ w.id = v.id + 1
  \/ w.id = v.id /\ w.version = v.version + 1
  \/ w.id = v.id /\ w.version = v.version /\ w.password = v.password

\* A request that has got past its first read holds such a row.
Sound(x, v) ==
  x.op = "none" \/ (IsRequest(x) /\ (x.at \notin {"whoami", "read"} => Since(x.user, v)))

AccountInv ==
  /\ IsRow(user)
  /\ proc = [p \in Process |-> proc[p]]
  /\ \A p \in Process : Sound(proc[p], user)
  /\ \A s \in sessions : Since(s, user)

(* What was no newer than a row stays so.                                   *)
LEMMA StaysOld ==
  ASSUME NEW v, NEW w, IsRow(v), IsRow(w), Later(v, w), NEW u, Since(u, v)
  PROVE  Since(u, w)
BY DEF IsRow, Later, Since

(* A row is no newer than itself, nor is a token of it.                     *)
LEMMA OwnRow ==
  ASSUME NEW v, IsRow(v)
  PROVE  Since(v, v) /\ Since(Token(v.id, v.version, v.password), v) /\ Later(v, v)
BY DEF IsRow, Since, Token, Later

(* A request that goes on keeps the row it read.                            *)
LEMMA GoesOn ==
  ASSUME NEW x, NEW v, NEW step, IsRequest(x), Since(x.user, v)
  PROVE  Sound([x EXCEPT !.at = step], v)
<1>1. [x EXCEPT !.at = step] = [op |-> x.op, req |-> x.req, user |-> x.user, row |-> x.row, at |-> step]
  BY DEF IsRequest
<1> DEFINE y == [op |-> x.op, req |-> x.req, user |-> x.user, row |-> x.row, at |-> step]
<1>2. IsRequest(y) /\ y.user = x.user
  BY DEF IsRequest
<1> QED
  BY <1>1, <1>2 DEF Sound

(* One request's step: the account moves on, at most one session is opened. *)
LEMMA OneStep ==
  ASSUME AccountInv, NEW p \in Process, NEW x, proc' = [proc EXCEPT ![p] = x],
         IsRow(user'), Later(user, user'), Sound(x, user'),
         \A s \in sessions' : s \in sessions \/ Since(s, user')
  PROVE  AccountInv'
<1>1. proc' = [o \in Process |-> proc'[o]] /\ proc'[p] = x
      /\ \A o \in Process \ {p} : proc'[o] = proc[o]
  BY DEF AccountInv
<1>2. ASSUME NEW o \in Process
      PROVE  Sound(proc'[o], user')
  <2>1. CASE o = p
    BY <1>1, <2>1
  <2>2. CASE o # p
    <3>1. proc'[o] = proc[o] /\ Sound(proc[o], user)
      BY <1>1, <2>2 DEF AccountInv
    <3>2. Since(proc[o].user, user) => Since(proc[o].user, user')
      BY StaysOld DEF AccountInv
    <3> QED
      BY <3>1, <3>2 DEF Sound
  <2> QED
    BY <2>1, <2>2
<1>3. ASSUME NEW s \in sessions'
      PROVE  Since(s, user')
  BY StaysOld DEF AccountInv
<1> QED
  BY <1>1, <1>2, <1>3 DEF AccountInv

(* A request that ends, or goes on, and changes neither account nor session. *)
LEMMA QuietStep ==
  ASSUME AccountInv, NEW p \in Process, UNCHANGED <<user, sessions>>,
         Done(p) \/ (\E step : Go(p, step) /\ IsRequest(proc[p]) /\ Since(me(p), user))
  PROVE  AccountInv'
<1>1. IsRow(user') /\ Later(user, user') /\ \A s \in sessions' : s \in sessions
  BY OwnRow DEF AccountInv
<1>2. CASE Done(p)
  <2>1. proc' = [proc EXCEPT ![p] = Idle] /\ Sound(Idle, user')
    BY <1>2 DEF Done, Idle, Sound
  <2> QED
    BY <1>1, <2>1, OneStep
<1>3. CASE \E step : Go(p, step) /\ IsRequest(proc[p]) /\ Since(me(p), user)
  <2>1. PICK step : Go(p, step) /\ IsRequest(proc[p]) /\ Since(proc[p].user, user')
    BY <1>3 DEF me
  <2>2. proc' = [proc EXCEPT ![p] = [proc[p] EXCEPT !.at = step]]
    BY <2>1 DEF Go
  <2>3. Sound([proc[p] EXCEPT !.at = step], user')
    BY <2>1, GoesOn
  <2> QED
    BY <1>1, <2>2, <2>3, OneStep
<1> QED
  BY <1>2, <1>3

(* What a request at a later step holds.                                    *)
LEMMA Holds ==
  ASSUME AccountInv, NEW p \in Process, NEW step, At(p, step), step \notin {"whoami", "read"}
  PROVE  IsRequest(proc[p]) /\ Since(me(p), user)
BY DEF AccountInv, At, Sound, me

(* A new request holds nothing yet.                                         *)
LEMMA Begins ==
  ASSUME AccountInv, NEW p \in Process, NEW req, Begin(p, req)
  PROVE  AccountInv'
<1> DEFINE x == [op |-> req.op, req |-> req, user |-> Idle, row |-> 0,
                 at |-> IF "session" \in DOMAIN req THEN "whoami" ELSE "read"]
<1>1. proc' = [proc EXCEPT ![p] = x] /\ UNCHANGED <<user, sessions>>
  BY DEF Begin
<1>2. Sound(x, user')
  BY DEF Sound, IsRequest
<1>3. IsRow(user') /\ Later(user, user')
  BY <1>1, OwnRow DEF AccountInv
<1> QED
  BY <1>1, <1>2, <1>3, OneStep

(* A request notes a row it has read and goes on.                           *)
LEMMA NotesUser ==
  ASSUME AccountInv, NEW p \in Process, IsRequest(proc[p]), NEW u, NEW step,
         proc' = [proc EXCEPT ![p].user = u, ![p].at = step]
  PROVE  proc' = [proc EXCEPT ![p] = [op |-> proc[p].op, req |-> proc[p].req, user |-> u,
                                      row |-> proc[p].row, at |-> step]]
<1> DEFINE f == [o \in Process |-> proc[o]]
           y == [op |-> proc[p].op, req |-> proc[p].req, user |-> u,
                 row |-> proc[p].row, at |-> proc[p].at]
           z == [op |-> proc[p].op, req |-> proc[p].req, user |-> u,
                 row |-> proc[p].row, at |-> step]
<1>1. proc = f
  BY DEF AccountInv
<1>2. [proc[p] EXCEPT !.user = u] = y
  BY DEF IsRequest
<1>3. [y EXCEPT !.at = step] = z
  OBVIOUS
<1> DEFINE g == [proc EXCEPT ![p].user = u]
<1>4. g = [o \in Process |-> IF o = p THEN y ELSE proc[o]]
  <2>1. g = [proc EXCEPT ![p] = [proc[p] EXCEPT !.user = u]]
    OBVIOUS
  <2>2. g = [proc EXCEPT ![p] = y]
    BY <2>1, <1>2
  <2> QED
    BY <2>2, <1>1
<1>5. [g EXCEPT ![p].at = step] = [g EXCEPT ![p] = z]
  <2>1. g[p] = y
    BY <1>4
  <2>2. [g EXCEPT ![p].at = step] = [g EXCEPT ![p] = [g[p] EXCEPT !.at = step]]
    OBVIOUS
  <2> HIDE DEF g, y, z
  <2> QED
    BY <2>1, <2>2, <1>3
<1>6. [g EXCEPT ![p] = z] = [proc EXCEPT ![p] = z]
  <2> HIDE DEF y, z, g
  <2> QED
    BY <1>1, <1>4 DEF f
<1>7. [proc EXCEPT ![p].user = u, ![p].at = step] = [g EXCEPT ![p].at = step]
  OBVIOUS
<1> QED
  BY <1>5, <1>6, <1>7

(* The same for a code it has found.                                        *)
LEMMA NotesCode ==
  ASSUME AccountInv, NEW p \in Process, IsRequest(proc[p]), NEW u, NEW step,
         proc' = [proc EXCEPT ![p].row = u, ![p].at = step]
  PROVE  proc' = [proc EXCEPT ![p] = [op |-> proc[p].op, req |-> proc[p].req, user |-> proc[p].user,
                                      row |-> u, at |-> step]]
<1> DEFINE f == [o \in Process |-> proc[o]]
           y == [op |-> proc[p].op, req |-> proc[p].req, user |-> proc[p].user,
                 row |-> u, at |-> proc[p].at]
           z == [op |-> proc[p].op, req |-> proc[p].req, user |-> proc[p].user,
                 row |-> u, at |-> step]
<1>1. proc = f
  BY DEF AccountInv
<1>2. [proc[p] EXCEPT !.row = u] = y
  BY DEF IsRequest
<1>3. [y EXCEPT !.at = step] = z
  OBVIOUS
<1> DEFINE g == [proc EXCEPT ![p].row = u]
<1>4. g = [o \in Process |-> IF o = p THEN y ELSE proc[o]]
  <2>1. g = [proc EXCEPT ![p] = [proc[p] EXCEPT !.row = u]]
    OBVIOUS
  <2>2. g = [proc EXCEPT ![p] = y]
    BY <2>1, <1>2
  <2> QED
    BY <2>2, <1>1
<1>5. [g EXCEPT ![p].at = step] = [g EXCEPT ![p] = z]
  <2>1. g[p] = y
    BY <1>4
  <2>2. [g EXCEPT ![p].at = step] = [g EXCEPT ![p] = [g[p] EXCEPT !.at = step]]
    OBVIOUS
  <2> HIDE DEF g, y, z
  <2> QED
    BY <2>1, <2>2, <1>3
<1>6. [g EXCEPT ![p] = z] = [proc EXCEPT ![p] = z]
  <2> HIDE DEF y, z, g
  <2> QED
    BY <1>1, <1>4 DEF f
<1>7. [proc EXCEPT ![p].row = u, ![p].at = step] = [g EXCEPT ![p].at = step]
  OBVIOUS
<1> QED
  BY <1>5, <1>6, <1>7

(* whoami takes the account as it is.                                       *)
LEMMA WhoamiStep ==
  ASSUME AccountInv, NEW p \in Process, Whoami(p)
  PROVE  AccountInv'
<1>1. UNCHANGED <<user, sessions>>
  BY DEF Whoami
<1>2. CASE Live(r(p).session)
  <2>1. PICK step : proc' = [proc EXCEPT ![p].user = user, ![p].at = step]
    BY <1>2 DEF Whoami
  <2> DEFINE x == [op |-> proc[p].op, req |-> proc[p].req, user |-> user, row |-> proc[p].row, at |-> step]
  <2>2. IsRequest(proc[p])
    BY DEF Whoami, At, AccountInv, Sound
  <2>3. proc' = [proc EXCEPT ![p] = x]
    BY <2>1, <2>2, NotesUser
  <2>4. Sound(x, user')
    BY <1>1, OwnRow DEF Sound, IsRequest, AccountInv
  <2>5. IsRow(user') /\ Later(user, user')
    BY <1>1, OwnRow DEF AccountInv
  <2> QED
    BY <1>1, <2>3, <2>4, <2>5, OneStep
<1>3. CASE ~Live(r(p).session)
  <2>1. Done(p)
    BY <1>3 DEF Whoami
  <2> QED
    BY <1>1, <2>1, QuietStep
<1> QED
  BY <1>2, <1>3

(* So does the first read of a handler.                                     *)
LEMMA ReadStep ==
  ASSUME AccountInv, NEW p \in Process, Read(p)
  PROVE  AccountInv'
<1>1. UNCHANGED <<user, sessions>>
  BY DEF Read
<1>2. Done(p) \/ \E step : proc' = [proc EXCEPT ![p].user = user, ![p].at = step]
  BY DEF Read
<1>3. CASE Done(p)
  BY <1>1, <1>3, QuietStep
<1>4. CASE \E step : proc' = [proc EXCEPT ![p].user = user, ![p].at = step]
  <2>1. PICK step : proc' = [proc EXCEPT ![p].user = user, ![p].at = step]
    BY <1>4
  <2> DEFINE x == [op |-> proc[p].op, req |-> proc[p].req, user |-> user, row |-> proc[p].row, at |-> step]
  <2>2. IsRequest(proc[p])
    BY DEF Read, At, AccountInv, Sound
  <2>3. proc' = [proc EXCEPT ![p] = x]
    BY <2>1, <2>2, NotesUser
  <2>4. Sound(x, user')
    BY <1>1, OwnRow DEF Sound, IsRequest, AccountInv
  <2>5. IsRow(user') /\ Later(user, user')
    BY <1>1, OwnRow DEF AccountInv
  <2> QED
    BY <1>1, <2>3, <2>4, <2>5, OneStep
<1> QED
  BY <1>2, <1>3, <1>4

(* A registration makes the account's successor and opens its session.      *)
LEMMA InsertStep ==
  ASSUME AccountInv, NEW p \in Process, Insert(p)
  PROVE  AccountInv'
<1>1. CASE user.exists
  <2>1. Done(p) /\ UNCHANGED <<user, sessions>>
    BY <1>1 DEF Insert
  <2> QED
    BY <2>1, QuietStep
<1>2. CASE ~user.exists
  <2>1. /\ user' = Account(user.id + 1, TRUE, FALSE, r(p).password, user.email)
        /\ sessions' = sessions \cup {Token(user.id + 1, 0, r(p).password)}
        /\ proc' = [proc EXCEPT ![p] = Idle]
    BY <1>2 DEF Insert, Done
  <2>2. IsRow(user') /\ Later(user, user')
    BY <2>1 DEF Account, IsRow, Later, AccountInv
  <2>3. Since(Token(user.id + 1, 0, r(p).password), user')
    BY <2>1, <2>2 DEF Account, Token, Since, AccountInv, IsRow
  <2>4. Sound(Idle, user')
    BY DEF Sound, Idle
  <2> QED
    BY <2>1, <2>2, <2>3, <2>4, OneStep
<1> QED
  BY <1>1, <1>2

(* Steps on codes only.                                                     *)
LEMMA CodeStep ==
  ASSUME AccountInv, NEW p \in Process,
         Clear(p) \/ Create(p) \/ Record(p) \/ Destroy(p) \/ Consume(p) \/ Mark(p)
  PROVE  AccountInv'
<1>1. UNCHANGED <<user, sessions>>
  BY DEF Clear, Create, Record, Destroy, Consume, Mark
<1>2. Done(p) \/ \E step : Go(p, step)
  BY DEF Clear, Create, Record, Destroy, Consume, Mark
<1>3. IsRequest(proc[p]) /\ Since(me(p), user)
  <2>1. PICK step \in {"clear", "clear again", "create", "record", "destroy", "consume", "mark"} : At(p, step)
    BY DEF Clear, Create, Record, Destroy, Consume, Mark
  <2>2. step \notin {"whoami", "read"}
    BY <2>1
  <2> QED
    BY <2>1, <2>2, Holds
<1> QED
  BY <1>1, <1>2, <1>3, QuietStep

(* A code is found: the request keeps the account it read.                  *)
LEMMA FindStep ==
  ASSUME AccountInv, NEW p \in Process, Find(p)
  PROVE  AccountInv'
<1>1. UNCHANGED <<user, sessions>>
  BY DEF Find
<1>2. Done(p) \/ \E c, step : proc' = [proc EXCEPT ![p].row = c, ![p].at = step]
  BY DEF Find
<1>3. CASE Done(p)
  BY <1>1, <1>3, QuietStep
<1>4. CASE \E c, step : proc' = [proc EXCEPT ![p].row = c, ![p].at = step]
  <2>1. PICK c, step : proc' = [proc EXCEPT ![p].row = c, ![p].at = step]
    BY <1>4
  <2> DEFINE x == [op |-> proc[p].op, req |-> proc[p].req, user |-> proc[p].user, row |-> c, at |-> step]
  <2>2. IsRequest(proc[p]) /\ Since(proc[p].user, user)
    BY Holds DEF Find, me
  <2>3. proc' = [proc EXCEPT ![p] = x]
    BY <2>1, <2>2, NotesCode
  <2>4. Sound(x, user')
    <3>1. IsRequest(x) /\ x.user = proc[p].user
      BY DEF IsRequest
    <3>2. user' = user
      BY <1>1
    <3> HIDE DEF x
    <3> QED
      BY <2>2, <3>1, <3>2 DEF Sound
  <2>5. IsRow(user') /\ Later(user, user')
    BY <1>1, OwnRow DEF AccountInv
  <2> QED
    BY <1>1, <2>3, <2>4, <2>5, OneStep
<1> QED
  BY <1>2, <1>3, <1>4

(* A session is signed for what the login read.                             *)
LEMMA OpenStep ==
  ASSUME AccountInv, NEW p \in Process, OpenSession(p)
  PROVE  AccountInv'
<1> DEFINE t == Token(me(p).id, me(p).version, me(p).password)
<1>1. UNCHANGED user /\ sessions' = sessions \cup {t} /\ proc' = [proc EXCEPT ![p] = Idle]
  BY DEF OpenSession, Done
<1>2. Since(me(p), user)
  BY Holds DEF OpenSession
<1>3. Since(t, user')
  BY <1>1, <1>2 DEF Token, Since
<1>4. Sound(Idle, user') /\ IsRow(user') /\ Later(user, user')
  BY <1>1, OwnRow DEF Sound, Idle, AccountInv
<1> QED
  BY <1>1, <1>3, <1>4, OneStep

(* A new password is a new version.                                         *)
LEMMA PasswordStep ==
  ASSUME AccountInv, NEW p \in Process, SetPassword(p)
  PROVE  AccountInv'
<1>1. IsRequest(proc[p]) /\ Since(proc[p].user, user)
  BY Holds DEF SetPassword, me
<1>2. CASE ~Mine(p)
  <2>1. Done(p) /\ UNCHANGED <<user, sessions>>
    BY <1>2 DEF SetPassword
  <2> QED
    BY <2>1, QuietStep
<1>3. CASE Mine(p)
  <2>1. user' = [user EXCEPT !.password = r(p).new, !.version = @ + 1, !.trusted = {}]
    BY <1>3 DEF SetPassword, WithPassword
  <2> DEFINE w == [id |-> user.id, exists |-> user.exists, password |-> r(p).new,
                   version |-> user.version + 1, two |-> user.two, trusted |-> {},
                   verified |-> user.verified, email |-> user.email]
  <2>0. user' = w
    <3> DEFINE v == [id |-> user.id, exists |-> user.exists, password |-> r(p).new,
                     version |-> user.version + 1, two |-> user.two, trusted |-> user.trusted,
                     verified |-> user.verified, email |-> user.email]
    <3>1. user = [id |-> user.id, exists |-> user.exists, password |-> user.password,
                  version |-> user.version, two |-> user.two, trusted |-> user.trusted,
                  verified |-> user.verified, email |-> user.email]
      BY DEF AccountInv, IsRow
    <3>2. [user EXCEPT !.password = r(p).new, !.version = user.version + 1] = v
      <4> DEFINE o == [id |-> user.id, exists |-> user.exists, password |-> r(p).new,
                       version |-> user.version, two |-> user.two, trusted |-> user.trusted,
                       verified |-> user.verified, email |-> user.email]
      <4>1. [user EXCEPT !.password = r(p).new] = o
        BY <3>1
      <4>2. [o EXCEPT !.version = user.version + 1] = v
        OBVIOUS
      <4>3. [user EXCEPT !.password = r(p).new, !.version = user.version + 1]
            = [[user EXCEPT !.password = r(p).new] EXCEPT !.version = user.version + 1]
        OBVIOUS
      <4> HIDE DEF o, v
      <4> QED
        BY <4>1, <4>2, <4>3
    <3>3. [v EXCEPT !.trusted = {}] = w
      OBVIOUS
    <3>4. user' = [[user EXCEPT !.password = r(p).new, !.version = user.version + 1] EXCEPT !.trusted = {}]
      <4>1. user.version = [user EXCEPT !.password = r(p).new].version
        BY <3>1
      <4> QED
        BY <2>1, <4>1
    <3> HIDE DEF v, w
    <3> QED
      BY <3>2, <3>3, <3>4
  <2>2. IsRow(user') /\ Later(user, user') /\ user'.id = user.id /\ user'.password = r(p).new
    <3>1. user.id \in Nat /\ user.version \in Nat
      BY DEF AccountInv, IsRow
    <3>2. IsRow(w) /\ Later(user, w) /\ w.id = user.id /\ w.password = r(p).new
      BY <3>1 DEF IsRow, Later
    <3> QED
      BY <2>0, <3>2
  <2>3. CASE Go(p, "consume") /\ UNCHANGED sessions
    <3>1. proc' = [proc EXCEPT ![p] = [proc[p] EXCEPT !.at = "consume"]]
      BY <2>3 DEF Go
    <3>2. Since(proc[p].user, user')
      BY <1>1, <2>2, StaysOld DEF AccountInv
    <3>3. Sound([proc[p] EXCEPT !.at = "consume"], user')
      BY <1>1, <3>2, GoesOn
    <3> QED
      BY <2>2, <2>3, <3>1, <3>3, OneStep
  <2>4. CASE Done(p) /\ sessions' = sessions \cup {Token(user.id, user'.version, r(p).new)}
    <3>1. Since(Token(user.id, user'.version, r(p).new), user')
      BY <2>2, OwnRow
    <3>2. proc' = [proc EXCEPT ![p] = Idle] /\ Sound(Idle, user')
      BY <2>4 DEF Done, Sound, Idle
    <3> QED
      BY <2>2, <2>4, <3>1, <3>2, OneStep
  <2> QED
    BY <1>3, <2>3, <2>4 DEF SetPassword
<1> QED
  BY <1>2, <1>3

(* Whatever else changes the account leaves its password and version alone.  *)
LEMMA SwitchStep ==
  ASSUME AccountInv, NEW p \in Process, Trust(p) \/ SetEmail(p) \/ Switch(p) \/ DeleteAccount(p)
  PROVE  AccountInv'
<1>1. UNCHANGED sessions /\ (Done(p) \/ \E step : Go(p, step))
  BY DEF Trust, SetEmail, Switch, DeleteAccount
<1>2. IsRequest(proc[p]) /\ Since(proc[p].user, user)
  <2>1. PICK step \in {"trust", "email", "switch", "delete"} : At(p, step)
    BY DEF Trust, SetEmail, Switch, DeleteAccount
  <2>2. step \notin {"whoami", "read"}
    BY <2>1
  <2> QED
    BY <2>1, <2>2, Holds DEF me
<1>3. IsRow(user') /\ Later(user, user')
  <2>1. \/ user' = user
        \/ \E v : \/ user' = [user EXCEPT !.trusted = v]
                  \/ user' = [user EXCEPT !.email = v]
                  \/ user' = [user EXCEPT !.two = v]
                  \/ user' = [user EXCEPT !.verified = v]
                  \/ user' = [user EXCEPT !.exists = v]
                  \/ user' = [user EXCEPT !.two = v, !.trusted = {}]
    BY DEF Trust, SetEmail, Switch, DeleteAccount
  <2> QED
    BY <2>1 DEF IsRow, Later, AccountInv
<1>4. Since(proc[p].user, user')
  BY <1>2, <1>3, StaysOld DEF AccountInv
<1>5. CASE Done(p)
  <2>1. proc' = [proc EXCEPT ![p] = Idle] /\ Sound(Idle, user')
    BY <1>5 DEF Done, Sound, Idle
  <2> QED
    BY <1>1, <1>3, <2>1, OneStep
<1>6. CASE \E step : Go(p, step)
  <2>1. PICK step : proc' = [proc EXCEPT ![p] = [proc[p] EXCEPT !.at = step]]
    BY <1>6 DEF Go
  <2>2. Sound([proc[p] EXCEPT !.at = step], user')
    BY <1>2, <1>4, GoesOn
  <2> QED
    BY <1>1, <1>3, <2>1, <2>2, OneStep
<1> QED
  BY <1>1, <1>5, <1>6

(* AccountInv is inductive.                                                 *)
LEMMA AccountInvariant == AccountsSpec => []AccountInv
<1>1. AccountsInit => AccountInv
  <2> SUFFICES ASSUME AccountsInit PROVE AccountInv
    OBVIOUS
  <2>1. proc = [p \in Process |-> Idle]
    BY DEF AccountsInit
  <2>2. /\ proc = [p \in Process |-> proc[p]]
        /\ \A p \in Process : Sound(proc[p], user)
    BY <2>1 DEF Sound, Idle
  <2>3. CASE \E password, email : user = Account(0, FALSE, FALSE, password, email) /\ sessions = {}
    <3>1. IsRow(user)
      BY <2>3 DEF Account, IsRow
    <3> QED
      BY <2>2, <2>3, <3>1 DEF AccountInv
  <2>4. CASE \E two, password, email : user = Account(1, TRUE, two, password, email)
                                       /\ sessions = {Token(1, 0, password)}
    <3>1. PICK two, password, email : user = Account(1, TRUE, two, password, email)
                                      /\ sessions = {Token(1, 0, password)}
      BY <2>4
    <3>2. IsRow(user) /\ Since(Token(1, 0, password), user)
      BY <3>1 DEF Account, IsRow, Since, Token
    <3> QED
      BY <2>2, <3>1, <3>2 DEF AccountInv
  <2> QED
    BY <2>3, <2>4 DEF AccountsInit
<1>2. AccountInv /\ [AccountsNext]_accountVars => AccountInv'
  <2> SUFFICES ASSUME AccountInv, [AccountsNext]_accountVars PROVE AccountInv'
    OBVIOUS
  <2>1. CASE UNCHANGED accountVars
    BY <2>1 DEF accountVars, AccountInv
  <2>2. ASSUME NEW p \in Process, AccountStep(p)
        PROVE  AccountInv'
    <3>1. ASSUME NEW req \in Request, Begin(p, req) PROVE AccountInv'
      BY <3>1, Begins
    <3>2. CASE Die(p)
      <4>1. Done(p) /\ UNCHANGED <<user, sessions>>
        BY <3>2 DEF Die
      <4> QED
        BY <4>1, QuietStep
    <3>3. CASE Whoami(p)
      BY <3>3, WhoamiStep
    <3>4. CASE Read(p)
      BY <3>4, ReadStep
    <3>5. CASE Insert(p)
      BY <3>5, InsertStep
    <3>6. CASE Clear(p) \/ Create(p) \/ Record(p) \/ Destroy(p) \/ Consume(p) \/ Mark(p)
      BY <3>6, CodeStep
    <3>7. CASE Find(p)
      BY <3>7, FindStep
    <3>8. CASE OpenSession(p)
      BY <3>8, OpenStep
    <3>9. CASE SetPassword(p)
      BY <3>9, PasswordStep
    <3>10. CASE Trust(p) \/ SetEmail(p) \/ Switch(p) \/ DeleteAccount(p)
      BY <3>10, SwitchStep
    <3> QED
      BY <2>2, <3>1, <3>2, <3>3, <3>4, <3>5, <3>6, <3>7, <3>8, <3>9, <3>10 DEF AccountStep
  <2>3. CASE \E c \in DOMAIN codes : Expire(c)
    BY <2>3 DEF Expire, AccountInv
  <2> QED
    BY <2>1, <2>2, <2>3 DEF AccountsNext
<1> QED
  BY <1>1, <1>2, PTL DEF AccountsSpec

(* Once the password has changed (settings.js, reset.js), no session of an   *)
(* older one is honoured by whoami, whatever logins were under way.          *)
THEOREM SessionTheorem == AccountsSpec => []SessionsFollowPassword
<1>1. AccountInv => SessionsFollowPassword
  BY DEF AccountInv, Since, Live, SessionsFollowPassword
<1> QED
  BY <1>1, AccountInvariant, PTL

(***************************************************************************)
(* Guesses                                                                  *)
(***************************************************************************)

\* A request that is about to record a wrong guess of the code c, or to
\* destroy it.
Records(x, c) == x.op # "none" /\ x.at \in {"record", "destroy"} /\ x.row = c
Bit(x, c) == IF Records(x, c) THEN 1 ELSE 0

\* The requests that read the account first, or again.
Reading == {"register", "login", "sendReset", "changePassword", "deleteAccount"} \cup Submits

Placed(x, issued) ==
  x # Idle => /\ x.op # "none" /\ (x.at = "read" => x.op \in Reading)
              /\ x.at \in {"record", "destroy"} => x.row \in issued

\* The wrong guesses of a code but for those whose deletion failed.
Tallied == DOMAIN spared = Issued /\ \A c \in Issued : wrong[c] \in Int /\ spared[c] \in Int
Net(c) == wrong[c] - spared[c]

\* The guesses that no request is about to record or has to punish, nor failed
\* to punish, are counted, and too few to destroy the code.
CodeSound(code, guesses, under) ==
  /\ {"type", "attempts"} \subseteq DOMAIN code
  /\ code.attempts \in Nat
  /\ guesses - under <= code.attempts /\ guesses - under < MaxAttempts

GuessInv ==
  /\ \E n \in Nat : Issued = 1 .. n
  /\ DOMAIN codes \subseteq Issued
  /\ \A p \in Process : Placed(proc[p], Issued)
  /\ Tallied /\ \A c \in Issued : IsFiniteSet(Recording(c))
  /\ \A c \in DOMAIN codes : CodeSound(codes[c], Net(c), Cardinality(Recording(c)))

(* A step of one request changes who is about to record by that request.    *)
LEMMA Recorders ==
  ASSUME AccountInv, NEW p \in Process, NEW x, proc' = [proc EXCEPT ![p] = x],
         NEW c, IsFiniteSet(Recording(c))
  PROVE  /\ IsFiniteSet(Recording(c)')
         /\ Cardinality(Recording(c)) \in Nat
         /\ Cardinality(Recording(c)') = Cardinality(Recording(c)) + Bit(x, c) - Bit(proc[p], c)
<1>1. /\ Recording(c) = {o \in Process : Records(proc[o], c)}
      /\ Recording(c)' = {o \in Process : Records(proc'[o], c)}
  BY DEF Recording, Records, At
<1>2. proc'[p] = x /\ \A o \in Process \ {p} : proc'[o] = proc[o]
  BY DEF AccountInv
<1>3. Cardinality(Recording(c)) \in Nat
  BY FS_CardinalityType
<1>4. CASE Records(x, c)
  <2>1. Recording(c)' = Recording(c) \cup {p}
    BY <1>1, <1>2, <1>4
  <2>2. p \in Recording(c) <=> Records(proc[p], c)
    BY <1>1
  <2> QED
    BY <2>1, <2>2, <1>3, <1>4, FS_AddElement DEF Bit
<1>5. CASE ~Records(x, c)
  <2>1. Recording(c)' = Recording(c) \ {p}
    BY <1>1, <1>2, <1>5
  <2>2. p \in Recording(c) <=> Records(proc[p], c)
    BY <1>1
  <2> QED
    BY <2>1, <2>2, <1>3, <1>5, FS_RemoveElement DEF Bit
<1> QED
  BY <1>4, <1>5

\* What a request's step, which makes it x, leaves of the code c: its balance
\* of guesses as it was, or one more that is counted and allowed.
Balanced(y, x, c) ==
  /\ {"type", "attempts"} \subseteq DOMAIN codes'[c]
  /\ \/ /\ Net(c)' = Net(c) + Bit(x, c) - Bit(y, c)
        /\ codes'[c].attempts \in Nat /\ codes[c].attempts <= codes'[c].attempts
     \/ /\ Net(c)' = Net(c) + Bit(x, c) - Bit(y, c) + 1
        /\ codes'[c].attempts = codes[c].attempts + 1
        /\ codes'[c].attempts < MaxAttempts

LEMMA GuessStep ==
  ASSUME AccountInv, GuessInv, NEW p \in Process, NEW x, proc' = [proc EXCEPT ![p] = x],
         Placed(x, Issued), DOMAIN wrong' = DOMAIN wrong, Tallied', DOMAIN codes' \subseteq DOMAIN codes,
         \A c \in DOMAIN codes' : Balanced(proc[p], x, c)
  PROVE  GuessInv'
<1>1. proc'[p] = x /\ \A o \in Process \ {p} : proc'[o] = proc[o]
  BY DEF AccountInv
<1>2. Issued' = Issued
  BY DEF Issued
<1>3. ASSUME NEW o \in Process PROVE Placed(proc'[o], Issued')
  BY <1>1, <1>2 DEF GuessInv
<1>4. ASSUME NEW c \in Issued PROVE IsFiniteSet(Recording(c)')
  BY Recorders DEF GuessInv
<1>5. ASSUME NEW c \in DOMAIN codes'
      PROVE  CodeSound(codes'[c], Net(c)', Cardinality(Recording(c)'))
  <2>1. c \in DOMAIN codes /\ c \in Issued /\ IsFiniteSet(Recording(c)) /\ Net(c) \in Int
    BY DEF GuessInv, Tallied, Net
  <2>2. /\ Cardinality(Recording(c)) \in Nat
        /\ Cardinality(Recording(c)') = Cardinality(Recording(c)) + Bit(x, c) - Bit(proc[p], c)
    BY <2>1, Recorders
  <2>3. CodeSound(codes[c], Net(c), Cardinality(Recording(c)))
    BY <2>1 DEF GuessInv
  <2>4. Bit(x, c) \in Int /\ Bit(proc[p], c) \in Int
    BY DEF Bit
  <2>5. Balanced(proc[p], x, c)
    OBVIOUS
  <2> DEFINE w == Cardinality(Recording(c))
             v == Cardinality(Recording(c)')
             a == Bit(x, c)
             b == Bit(proc[p], c)
  <2>6. w \in Nat /\ v = w + a - b /\ a \in Int /\ b \in Int
    BY <2>2, <2>4
  <2> HIDE DEF w, v, a, b
  <2>7. CodeSound(codes[c], Net(c), w)
    BY <2>3 DEF w
  <2>8. CodeSound(codes'[c], Net(c)', v)
    <3>1. CASE /\ Net(c)' = Net(c) + a - b
               /\ codes'[c].attempts \in Nat /\ codes[c].attempts <= codes'[c].attempts
      BY <2>1, <2>5, <2>6, <2>7, <3>1, AccountBounds DEF CodeSound, Balanced
    <3>2. CASE /\ Net(c)' = Net(c) + a - b + 1
               /\ codes'[c].attempts = codes[c].attempts + 1 /\ codes'[c].attempts < MaxAttempts
      BY <2>1, <2>5, <2>6, <2>7, <3>2, AccountBounds DEF CodeSound, Balanced
    <3> QED
      BY <2>5, <3>1, <3>2 DEF Balanced, a, b
  <2> QED
    BY <2>8 DEF v
<1>6. DOMAIN codes' \subseteq Issued' /\ \E n \in Nat : Issued' = 1 .. n
  BY <1>2 DEF GuessInv
<1> QED
  BY <1>2, <1>3, <1>4, <1>5, <1>6 DEF GuessInv

(* A request that neither is nor comes to be about to record.               *)
LEMMA NoGuess ==
  ASSUME AccountInv, GuessInv, NEW p \in Process, NEW x, proc' = [proc EXCEPT ![p] = x],
         Placed(x, Issued), \A c \in Issued : ~Records(proc[p], c) /\ ~Records(x, c),
         UNCHANGED tally, DOMAIN codes' \subseteq DOMAIN codes,
         \A c \in DOMAIN codes' : /\ codes'[c].attempts = codes[c].attempts
                                  /\ {"type", "attempts"} \subseteq DOMAIN codes'[c]
  PROVE  GuessInv'
<1>1. ASSUME NEW c \in DOMAIN codes' PROVE Balanced(proc[p], x, c)
  <2>1. /\ c \in Issued /\ Net(c) \in Int /\ Net(c)' = Net(c)
        /\ CodeSound(codes[c], Net(c), Cardinality(Recording(c)))
    BY DEF GuessInv, Tallied, Net, tally
  <2>2. Bit(proc[p], c) = 0 /\ Bit(x, c) = 0
    BY <2>1 DEF Bit
  <2> QED
    BY <2>1, <2>2 DEF Balanced, CodeSound
<1>2. Tallied' /\ DOMAIN wrong' = DOMAIN wrong
  BY DEF GuessInv, Tallied, Issued, tally
<1> QED
  BY <1>1, <1>2, GuessStep

(* Such a request that ends, or goes on elsewhere.                           *)
LEMMA GoesElsewhere ==
  ASSUME AccountInv, GuessInv, NEW p \in Process,
         NEW here, At(p, here), here \notin {"record", "destroy"},
         Done(p) \/ (\E step : Go(p, step) /\ IsRequest(proc[p]) /\ step \notin {"read", "record", "destroy"}),
         UNCHANGED tally, DOMAIN codes' \subseteq DOMAIN codes,
         \A c \in DOMAIN codes' : /\ codes'[c].attempts = codes[c].attempts
                                  /\ {"type", "attempts"} \subseteq DOMAIN codes'[c]
  PROVE  GuessInv'
<1>1. \A c \in Issued : ~Records(proc[p], c)
  BY DEF At, Records
<1>2. CASE Done(p)
  <2>1. proc' = [proc EXCEPT ![p] = Idle] /\ Placed(Idle, Issued) /\ \A c \in Issued : ~Records(Idle, c)
    BY <1>2 DEF Done, Idle, Placed, Records
  <2> QED
    BY <1>1, <2>1, NoGuess
<1>3. CASE \E step : Go(p, step) /\ IsRequest(proc[p]) /\ step \notin {"read", "record", "destroy"}
  <2>1. PICK step : Go(p, step) /\ IsRequest(proc[p]) /\ step \notin {"read", "record", "destroy"}
    BY <1>3
  <2> DEFINE x == [proc[p] EXCEPT !.at = step]
  <2>2. proc' = [proc EXCEPT ![p] = x] /\ x.at = step /\ x.op # "none"
    BY <2>1 DEF Go, IsRequest, At
  <2>3. Placed(x, Issued) /\ \A c \in Issued : ~Records(x, c)
    BY <2>1, <2>2 DEF Placed, Records
  <2> HIDE DEF x
  <2> QED
    BY <1>1, <2>2, <2>3, NoGuess
<1> QED
  BY <1>2, <1>3

(* So it is when a request notes what it has read.                          *)
LEMMA GoesElsewhereNoting ==
  ASSUME AccountInv, GuessInv, NEW p \in Process, IsRequest(proc[p]), proc[p].op # "none",
         proc[p].at \notin {"record", "destroy"}, UNCHANGED <<codes, tally>>,
         NEW u, NEW c, NEW step, step \notin {"record", "destroy"}, step = "read" => proc[p].op \in Reading,
         proc' = [proc EXCEPT ![p] = [op |-> proc[p].op, req |-> proc[p].req, user |-> u,
                                      row |-> c, at |-> step]]
  PROVE  GuessInv'
<1> DEFINE x == [op |-> proc[p].op, req |-> proc[p].req, user |-> u, row |-> c, at |-> step]
<1>1. \A k \in Issued : ~Records(proc[p], k) /\ ~Records(x, k)
  BY DEF Records
<1>2. Placed(x, Issued)
  BY DEF Placed
<1>3. \A k \in DOMAIN codes' : codes'[k].attempts = codes[k].attempts /\ {"type", "attempts"} \subseteq DOMAIN codes'[k]
  BY DEF GuessInv, CodeSound
<1> HIDE DEF x
<1> QED
  BY <1>1, <1>2, <1>3, NoGuess DEF x

(* A new request.                                                           *)
LEMMA BeginsNoGuess ==
  ASSUME AccountInv, GuessInv, NEW p \in Process, NEW req \in Request, Begin(p, req)
  PROVE  GuessInv'
<1> DEFINE x == [op |-> req.op, req |-> req, user |-> Idle, row |-> 0,
                 at |-> IF "session" \in DOMAIN req THEN "whoami" ELSE "read"]
<1>1. proc' = [proc EXCEPT ![p] = x] /\ UNCHANGED <<codes, tally>> /\ proc[p] = Idle
  BY DEF Begin
<1>2. "session" \in DOMAIN req \/ req.op \in Reading
  BY DEF Request, SignedRequest, Registers, LogsIn, AsksForReset, Resets, ChangesPassword, ChangesEmail,
         AsksToVerify, Verifies, AsksToSwitch, Switches, Leaves, Reading, Submits
<1>3. \A c \in Issued : ~Records(proc[p], c) /\ ~Records(x, c)
  BY <1>1 DEF Records, Idle
<1>4. Placed(x, Issued)
  <2>1. req.op # "none"
    BY DEF Request, SignedRequest, Registers, LogsIn, AsksForReset, Resets, ChangesPassword, ChangesEmail,
           AsksToVerify, Verifies, AsksToSwitch, Switches, Leaves
  <2> QED
    BY <1>2, <2>1 DEF Placed
<1>5. \A k \in DOMAIN codes' : codes'[k].attempts = codes[k].attempts /\ {"type", "attempts"} \subseteq DOMAIN codes'[k]
  BY <1>1 DEF GuessInv, CodeSound
<1> HIDE DEF x
<1> QED
  BY <1>1, <1>3, <1>4, <1>5, NoGuess

(* The account is read.                                                     *)
LEMMA ReadNoGuess ==
  ASSUME AccountInv, GuessInv, NEW p \in Process, Whoami(p) \/ Read(p)
  PROVE  GuessInv'
<1>1. /\ proc[p].op # "none" /\ proc[p].at \in {"whoami", "read"} /\ UNCHANGED <<codes, tally>>
      /\ IsRequest(proc[p])
  BY DEF Whoami, Read, At, AccountInv, Sound
<1>2. CASE Done(p)
  <2>1. \A k \in DOMAIN codes' : codes'[k].attempts = codes[k].attempts /\ {"type", "attempts"} \subseteq DOMAIN codes'[k]
    BY <1>1 DEF GuessInv, CodeSound
  <2>2. PICK here \in {"whoami", "read"} : At(p, here)
    BY <1>1 DEF At
  <2> QED
    BY <1>1, <1>2, <2>1, <2>2, GoesElsewhere
<1>3. CASE \E step : /\ proc' = [proc EXCEPT ![p].user = user, ![p].at = step]
                     /\ step \notin {"record", "destroy"} /\ (step = "read" => proc[p].op \in Reading)
  <2>1. PICK step : /\ proc' = [proc EXCEPT ![p].user = user, ![p].at = step]
                    /\ step \notin {"record", "destroy"} /\ (step = "read" => proc[p].op \in Reading)
    BY <1>3
  <2>2. PICK u, c : u = user /\ c = proc[p].row
    OBVIOUS
  <2>3. proc' = [proc EXCEPT ![p] = [op |-> proc[p].op, req |-> proc[p].req, user |-> u, row |-> c, at |-> step]]
    <3>1. proc' = [proc EXCEPT ![p].user = u, ![p].at = step]
      BY <2>1, <2>2
    <3>2. proc' = [proc EXCEPT ![p] = [op |-> proc[p].op, req |-> proc[p].req, user |-> u,
                                       row |-> proc[p].row, at |-> step]]
      BY <1>1, <3>1, NotesUser
    <3> QED
      BY <2>2, <3>2
  <2> QED
    BY <1>1, <2>1, <2>3, GoesElsewhereNoting
<1>4. CASE Whoami(p)
  <2> DEFINE next == CASE proc[p].op \in {"changePassword", "deleteAccount"} -> "read"
                       [] proc[p].op \in Submits -> "find"
                       [] OTHER -> "clear"
  <2>1. Done(p) \/ proc' = [proc EXCEPT ![p].user = user, ![p].at = next]
    BY <1>4 DEF Whoami
  <2>2. next \notin {"record", "destroy"} /\ (next = "read" => proc[p].op \in Reading)
    BY DEF Reading
  <2> HIDE DEF next
  <2> QED
    BY <1>2, <1>3, <2>1, <2>2
<1>5. CASE Read(p)
  <2>1. proc[p].op \in Reading
    BY <1>1, <1>5 DEF GuessInv, Placed, Read, At, Idle
  <2> DEFINE op == proc[p].op
             next == CASE op = "register" -> IF user.exists THEN "refused" ELSE "insert"
                       [] ~user.exists -> "refused"
                       [] op = "login" -> AfterLogin(r(p))
                       [] op = "sendReset" -> "clear"
                       [] op \in Submits -> "find"
                       [] op = "changePassword" ->
                            IF r(p).old = user.password /\ r(p).new # user.password THEN "password" ELSE "refused"
                       [] op = "deleteAccount" -> IF r(p).password = user.password THEN "delete" ELSE "refused"
  <2>2. Done(p) \/ proc' = [proc EXCEPT ![p].user = user, ![p].at = next]
    BY <1>5 DEF Read
  <2>3. AfterLogin(r(p)) \in {"refused", "open", "clear", "trust"}
    BY DEF AfterLogin
  <2>4. next \in {"refused", "insert", "open", "clear", "trust", "find", "password", "delete"}
    BY <2>1, <2>3 DEF Reading
  <2> HIDE DEF next
  <2> QED
    BY <1>2, <1>3, <2>2, <2>4
<1> QED
  BY <1>4, <1>5

(* Steps that have to do with no guess.                                     *)
LEMMA OtherNoGuess ==
  ASSUME AccountInv, GuessInv, NEW p \in Process,
         \/ Insert(p) \/ Clear(p) \/ Consume(p) \/ Trust(p) \/ OpenSession(p) \/ Mark(p)
         \/ SetPassword(p) \/ SetEmail(p) \/ Switch(p) \/ DeleteAccount(p)
  PROVE  GuessInv'
<1> DEFINE Here == {"insert", "clear", "clear again", "consume", "trust", "open", "mark", "password", "email",
                    "switch", "delete"}
<1>1. PICK here \in Here : At(p, here)
  BY DEF Insert, Clear, Consume, Trust, OpenSession, Mark, SetPassword, SetEmail, Switch, DeleteAccount
<1>2. UNCHANGED tally
  BY DEF Insert, Clear, Consume, Trust, OpenSession, Mark, SetPassword, SetEmail, Switch, DeleteAccount
<1>3. Done(p) \/ \E step : Go(p, step) /\ step \notin {"read", "record", "destroy"}
  <2> DEFINE There == {"create", "clear again", "open", "trust", "switch", "consume"}
  <2>0. \A step \in There : step \notin {"read", "record", "destroy"}
    OBVIOUS
  <2>1. CASE Insert(p) \/ OpenSession(p) \/ DeleteAccount(p)
    BY <2>1 DEF Insert, OpenSession, DeleteAccount
  <2>2. CASE Clear(p)
    <3>1. Done(p) \/ Go(p, "create") \/ Go(p, "clear again")
      BY <2>2 DEF Clear
    <3> QED
      BY <2>0, <3>1
  <2>3. CASE Consume(p)
    <3>1. Done(p) \/ Go(p, "open") \/ Go(p, "trust")
      BY <2>3 DEF Consume
    <3> QED
      BY <2>0, <3>1
  <2>4. CASE Trust(p) \/ Mark(p) \/ SetPassword(p)
    <3>1. Done(p) \/ Go(p, "open") \/ Go(p, "switch") \/ Go(p, "consume")
      BY <2>4 DEF Trust, Mark, SetPassword
    <3> QED
      BY <2>0, <3>1
  <2>5. CASE SetEmail(p) \/ Switch(p)
    <3>1. Done(p) \/ Go(p, "consume")
      BY <2>5 DEF SetEmail, Switch
    <3> QED
      BY <2>0, <3>1
  <2> QED
    BY <2>1, <2>2, <2>3, <2>4, <2>5
<1>4. /\ DOMAIN codes' \subseteq DOMAIN codes
      /\ \A k \in DOMAIN codes' : /\ codes'[k].attempts = codes[k].attempts
                                  /\ {"type", "attempts"} \subseteq DOMAIN codes'[k]
  <2>0. \A k \in DOMAIN codes : {"type", "attempts"} \subseteq DOMAIN codes[k]
    BY DEF GuessInv, CodeSound
  <2>1. CASE codes' = codes
    BY <2>0, <2>1
  <2>2. CASE \E gone : codes' = WithoutCodes(gone)
    BY <2>0, <2>2 DEF WithoutCodes
  <2>3. CASE \E c \in DOMAIN codes : codes' = [codes EXCEPT ![c].verified = TRUE]
    BY <2>0, <2>3
  <2>4. codes' = codes \/ (\E gone : codes' = WithoutCodes(gone))
        \/ \E c \in DOMAIN codes : codes' = [codes EXCEPT ![c].verified = TRUE]
    BY DEF Insert, Clear, Consume, Trust, OpenSession, Mark, SetPassword, SetEmail, Switch, DeleteAccount
  <2> QED
    BY <2>1, <2>2, <2>3, <2>4
<1>5. IsRequest(proc[p])
  BY <1>1 DEF At, AccountInv, Sound
<1>6. here \notin {"record", "destroy"}
  OBVIOUS
<1> QED
  BY <1>1, <1>2, <1>3, <1>4, <1>5, <1>6, GoesElsewhere

(* A pending code is compared: a wrong guess is to be recorded.             *)
LEMMA FindGuess ==
  ASSUME AccountInv, GuessInv, NEW p \in Process, Find(p)
  PROVE  GuessInv'
<1>0. At(p, "find") /\ IsRequest(proc[p])
  BY DEF Find, At, AccountInv, Sound
<1>1. \A k \in DOMAIN codes : {"type", "attempts"} \subseteq DOMAIN codes[k]
  BY DEF GuessInv, CodeSound
<1>0a. UNCHANGED spared
  BY DEF Find
<1>2. CASE Done(p) /\ UNCHANGED wrong /\ (UNCHANGED codes \/ \E c : codes' = WithoutCodes({c}))
  <2>1. /\ DOMAIN codes' \subseteq DOMAIN codes
        /\ \A k \in DOMAIN codes' : /\ codes'[k].attempts = codes[k].attempts
                                    /\ {"type", "attempts"} \subseteq DOMAIN codes'[k]
    BY <1>1, <1>2 DEF WithoutCodes
  <2> QED
    BY <1>0, <1>0a, <1>2, <2>1, GoesElsewhere DEF tally
<1>3. ASSUME NEW c \in Findable(p), UNCHANGED codes, r(p).code = c, wrong' = wrong,
             proc' = [proc EXCEPT ![p].row = c, ![p].at = AfterCode(proc[p].op)]
      PROVE  GuessInv'
  <2>1. PICK step : step = AfterCode(proc[p].op)
    OBVIOUS
  <2>2. step \in {"consume", "mark", "password", "email", "switch"}
    BY <2>1 DEF AfterCode
  <2>3. proc' = [proc EXCEPT ![p].row = c, ![p].at = step]
    BY <1>3, <2>1
  <2>4. PICK u : u = proc[p].user
    OBVIOUS
  <2>5. proc' = [proc EXCEPT ![p] = [op |-> proc[p].op, req |-> proc[p].req, user |-> proc[p].user,
                                     row |-> c, at |-> step]]
    BY <1>0, <2>3, NotesCode
  <2>6. proc' = [proc EXCEPT ![p] = [op |-> proc[p].op, req |-> proc[p].req, user |-> u,
                                     row |-> c, at |-> step]]
    BY <2>4, <2>5
  <2>7. proc[p].op # "none" /\ proc[p].at = "find"
    BY <1>0 DEF At
  <2> QED
    <3>1. step \notin {"record", "destroy"} /\ step # "read"
      BY <2>2
    <3>2. proc[p].at \notin {"record", "destroy"}
      BY <2>7
    <3>3. UNCHANGED <<codes, tally>>
      BY <1>0a, <1>3 DEF tally
    <3> QED
      BY <1>0, <2>6, <2>7, <3>1, <3>2, <3>3, GoesElsewhereNoting
<1>4. ASSUME NEW c \in Findable(p), UNCHANGED codes, wrong' = [wrong EXCEPT ![c] = @ + 1],
             proc' = [proc EXCEPT ![p].row = c, ![p].at = "record"]
      PROVE  GuessInv'
  <2> DEFINE x == [op |-> proc[p].op, req |-> proc[p].req, user |-> proc[p].user, row |-> c, at |-> "record"]
  <2>1. proc' = [proc EXCEPT ![p] = x]
    BY <1>0, <1>4, NotesCode
  <2>2. c \in DOMAIN codes /\ c \in Issued
    BY DEF Findable, OfType, GuessInv
  <2>3. Placed(x, Issued)
    BY <1>0, <2>2 DEF Placed, At
  <2>4. /\ DOMAIN wrong' = DOMAIN wrong /\ wrong'[c] = wrong[c] + 1
        /\ \A k \in Issued \ {c} : wrong'[k] = wrong[k]
    BY <1>4, <2>2 DEF Issued
  <2>5. Tallied' /\ Net(c)' = Net(c) + 1 /\ \A k \in Issued \ {c} : Net(k)' = Net(k)
    BY <1>0a, <2>2, <2>4 DEF GuessInv, Tallied, Net, Issued
  <2>6. proc[p].at = "find" /\ proc[p].op # "none"
    BY <1>0 DEF At
  <2>7. /\ \A k : Bit(proc[p], k) = 0
        /\ \A k : k # c => Bit(x, k) = 0
        /\ Bit(x, c) = 1
    BY <2>6 DEF Bit, Records
  <2> HIDE DEF x
  <2>8. ASSUME NEW k \in DOMAIN codes' PROVE Balanced(proc[p], x, k)
    <3>1. k \in DOMAIN codes /\ k \in Issued /\ codes' = codes
      BY <1>4 DEF GuessInv
    <3>2. codes[k].attempts \in Nat /\ Net(k) \in Int /\ {"type", "attempts"} \subseteq DOMAIN codes[k]
      BY <3>1 DEF GuessInv, CodeSound, Tallied, Net
    <3>3. Net(k)' = Net(k) + Bit(x, k) - Bit(proc[p], k)
      BY <2>5, <2>7, <3>1, <3>2
    <3> QED
      BY <3>1, <3>2, <3>3 DEF Balanced
  <2>9. DOMAIN codes' \subseteq DOMAIN codes
    BY <1>4
  <2> QED
    BY <2>1, <2>3, <2>4, <2>5, <2>8, <2>9, GuessStep
<1> QED
  BY <1>2, <1>3, <1>4 DEF Find

(* A guess is counted; at the cap its request goes on to destroy the code.   *)
LEMMA RecordGuess ==
  ASSUME AccountInv, GuessInv, NEW p \in Process, Record(p)
  PROVE  GuessInv'
<1>0. At(p, "record") /\ IsRequest(proc[p]) /\ UNCHANGED tally
  BY DEF Record, At, AccountInv, Sound
<1>1. PICK c : c = proc[p].row
  OBVIOUS
<1>2. c \in Issued
  BY <1>0, <1>1 DEF GuessInv, Placed, At, Idle
<1>3. /\ Bit(proc[p], c) = 1 /\ \A k : k # c => Bit(proc[p], k) = 0
      /\ \A k : Bit(Idle, k) = 0
  BY <1>0, <1>1 DEF Bit, Records, At, Idle
<1>4. /\ Placed(Idle, Issued) /\ DOMAIN wrong' = DOMAIN wrong /\ Tallied'
      /\ \A k : Net(k)' = Net(k)
  BY <1>0 DEF Placed, Idle, GuessInv, Tallied, Net, Issued, tally
<1>5. \A k \in DOMAIN codes : /\ k \in Issued /\ Net(k) \in Int /\ codes[k].attempts \in Nat
                              /\ {"type", "attempts"} \subseteq DOMAIN codes[k]
  BY DEF GuessInv, CodeSound, Tallied, Net
<1>6. CASE c \notin DOMAIN codes
  <2>1. proc' = [proc EXCEPT ![p] = Idle] /\ codes' = codes
    BY <1>1, <1>6 DEF Record, Done
  <2>2. \A k \in DOMAIN codes' : Balanced(proc[p], Idle, k)
    BY <1>3, <1>4, <1>5, <1>6, <2>1 DEF Balanced
  <2> QED
    BY <1>4, <2>1, <2>2, GuessStep
<1>7. CASE c \in DOMAIN codes
  <2>1. codes' = [codes EXCEPT ![c].attempts = @ + 1]
    BY <1>1, <1>7 DEF Record
  <2>2. /\ DOMAIN codes' = DOMAIN codes /\ \A k \in DOMAIN codes \ {c} : codes'[k] = codes[k]
        /\ DOMAIN codes'[c] = DOMAIN codes[c] /\ codes'[c].attempts = codes[c].attempts + 1
    BY <1>5, <1>7, <2>1
  <2>3. \A k \in DOMAIN codes' : {"type", "attempts"} \subseteq DOMAIN codes'[k]
    BY <1>5, <2>2
  <2>4. CASE codes[c].attempts + 1 >= MaxAttempts
    <3> DEFINE x == [proc[p] EXCEPT !.at = "destroy"]
    <3>1. proc' = [proc EXCEPT ![p] = x]
      BY <1>1, <1>7, <2>4 DEF Record, Go
    <3>2. x.op = proc[p].op /\ x.at = "destroy" /\ x.row = c
      BY <1>0, <1>1 DEF IsRequest
    <3>3. Placed(x, Issued) /\ Bit(x, c) = 1 /\ \A k : k # c => Bit(x, k) = 0
      BY <1>0, <1>2, <3>2 DEF Placed, Bit, Records, At
    <3> HIDE DEF x
    <3>4. ASSUME NEW k \in DOMAIN codes' PROVE Balanced(proc[p], x, k)
      <4>1. Net(k)' = Net(k) + Bit(x, k) - Bit(proc[p], k)
        BY <1>3, <1>4, <1>5, <2>2, <3>3
      <4>2. codes'[k].attempts \in Nat /\ codes[k].attempts <= codes'[k].attempts
        BY <1>5, <2>2
      <4> QED
        BY <2>3, <4>1, <4>2 DEF Balanced
    <3> QED
      BY <1>4, <2>2, <3>1, <3>3, <3>4, GuessStep
  <2>5. CASE ~(codes[c].attempts + 1 >= MaxAttempts)
    <3>1. proc' = [proc EXCEPT ![p] = Idle]
      BY <1>1, <1>7, <2>5 DEF Record, Done
    <3>2. ASSUME NEW k \in DOMAIN codes', k # c PROVE Balanced(proc[p], Idle, k)
      BY <1>3, <1>4, <1>5, <2>2, <2>3, <3>2 DEF Balanced
    <3>3. Balanced(proc[p], Idle, c)
      <4>1. Net(c)' = Net(c) + Bit(Idle, c) - Bit(proc[p], c) + 1
        BY <1>3, <1>4, <1>5, <1>7
      <4>2. codes'[c].attempts < MaxAttempts
        BY <1>5, <1>7, <2>2, <2>5, AccountBounds
      <4> QED
        BY <1>7, <2>2, <2>3, <4>1, <4>2 DEF Balanced
    <3>4. \A k \in DOMAIN codes' : Balanced(proc[p], Idle, k)
      BY <3>2, <3>3
    <3> QED
      BY <1>4, <2>2, <3>1, <3>4, GuessStep
  <2> QED
    BY <2>4, <2>5
<1> QED
  BY <1>6, <1>7

(* A code that had its last guess is destroyed.                             *)
LEMMA DestroyGuess ==
  ASSUME AccountInv, GuessInv, NEW p \in Process, Destroy(p)
  PROVE  GuessInv'
<1>1. PICK c : c = proc[p].row
  OBVIOUS
<1>2. proc' = [proc EXCEPT ![p] = Idle] /\ codes' = WithoutCodes({c}) /\ UNCHANGED tally
  BY <1>1 DEF Destroy, Done
<1>3. \A k : k # c => Bit(proc[p], k) = 0 /\ Bit(Idle, k) = 0
  BY <1>1 DEF Bit, Records, Idle
<1>4. Placed(Idle, Issued) /\ Tallied' /\ \A k : Net(k)' = Net(k)
  BY <1>2 DEF Placed, Idle, GuessInv, Tallied, Net, Issued, tally
<1>5. \A k \in DOMAIN codes' : k \in DOMAIN codes /\ k # c /\ codes'[k] = codes[k]
  BY <1>2 DEF WithoutCodes
<1>6. \A k \in DOMAIN codes : /\ Net(k) \in Int /\ codes[k].attempts \in Nat
                              /\ {"type", "attempts"} \subseteq DOMAIN codes[k]
  BY DEF GuessInv, CodeSound, Tallied, Net
<1>7. ASSUME NEW k \in DOMAIN codes' PROVE Balanced(proc[p], Idle, k)
  <2>0. k # c /\ Net(k) \in Int /\ Net(k)' = Net(k)
    BY <1>4, <1>5, <1>6
  <2>1. Bit(proc[p], k) = 0 /\ Bit(Idle, k) = 0
    BY <1>3, <2>0
  <2>2. Net(k)' = Net(k) + Bit(Idle, k) - Bit(proc[p], k)
    BY <2>0, <2>1
  <2> QED
    BY <1>5, <1>6, <2>2 DEF Balanced
<1>8. DOMAIN wrong' = DOMAIN wrong /\ DOMAIN codes' \subseteq DOMAIN codes
  BY <1>2, <1>5 DEF tally
<1> QED
  BY <1>2, <1>4, <1>7, <1>8, GuessStep

(* A request dies: the guess it had not recorded counts for nothing, and the  *)
(* one that should have destroyed its code spares it.                       *)
LEMMA DieGuess ==
  ASSUME AccountInv, GuessInv, NEW p \in Process, Die(p)
  PROVE  GuessInv'
<1>0. proc[p] # Idle /\ proc' = [proc EXCEPT ![p] = Idle] /\ codes' = codes
  BY DEF Die, Done
<1>1. \A k : Bit(Idle, k) = 0
  BY DEF Bit, Records, Idle
<1>2. Placed(Idle, Issued)
  BY DEF Placed, Idle
<1>3. \A k \in DOMAIN codes : /\ k \in Issued /\ Net(k) \in Int /\ codes[k].attempts \in Nat
                              /\ {"type", "attempts"} \subseteq DOMAIN codes[k]
  BY DEF GuessInv, CodeSound, Tallied, Net
<1>4. CASE proc[p].at \in {"record", "destroy"}
  <2>1. PICK c : c = proc[p].row
    OBVIOUS
  <2>2. c \in Issued /\ Bit(proc[p], c) = 1 /\ \A k : k # c => Bit(proc[p], k) = 0
    BY <1>0, <1>4, <2>1 DEF Bit, Records, GuessInv, Placed
  <2>3. \/ wrong' = [wrong EXCEPT ![c] = @ - 1] /\ spared' = spared
        \/ wrong' = wrong /\ spared' = [spared EXCEPT ![c] = @ + 1]
    BY <1>4, <2>1 DEF Die
  <2>4. DOMAIN wrong' = DOMAIN wrong /\ DOMAIN spared' = DOMAIN spared
    BY <2>3
  <2>5. Tallied' /\ Net(c)' = Net(c) - 1 /\ \A k \in Issued \ {c} : Net(k)' = Net(k)
    <3>1. CASE wrong' = [wrong EXCEPT ![c] = @ - 1] /\ spared' = spared
      BY <2>2, <3>1 DEF GuessInv, Tallied, Net, Issued
    <3>2. CASE wrong' = wrong /\ spared' = [spared EXCEPT ![c] = @ + 1]
      BY <2>2, <3>2 DEF GuessInv, Tallied, Net, Issued
    <3> QED
      BY <2>3, <3>1, <3>2
  <2>6. ASSUME NEW k \in DOMAIN codes' PROVE Balanced(proc[p], Idle, k)
    <3>1. Net(k)' = Net(k) + Bit(Idle, k) - Bit(proc[p], k)
      BY <1>0, <1>1, <1>3, <2>2, <2>5
    <3> QED
      BY <1>0, <1>3, <3>1 DEF Balanced
  <2> QED
    BY <1>0, <1>2, <2>4, <2>5, <2>6, GuessStep
<1>5. CASE proc[p].at \notin {"record", "destroy"}
  <2>1. UNCHANGED tally
    BY <1>5 DEF Die, tally
  <2>2. \A k \in Issued : Bit(proc[p], k) = 0
    BY <1>5 DEF Bit, Records
  <2>3. Tallied' /\ DOMAIN wrong' = DOMAIN wrong /\ \A k : Net(k)' = Net(k)
    BY <2>1 DEF GuessInv, Tallied, Net, Issued, tally
  <2>4. \A k \in DOMAIN codes' : Balanced(proc[p], Idle, k)
    BY <1>0, <1>1, <1>3, <2>2, <2>3 DEF Balanced
  <2> QED
    BY <1>0, <1>2, <2>3, <2>4, GuessStep
<1> QED
  BY <1>4, <1>5

(* A code is issued: nobody guesses at it yet.                              *)
LEMMA CreateGuess ==
  ASSUME AccountInv, GuessInv, NEW p \in Process, Create(p)
  PROVE  GuessInv'
<1>0. At(p, "create") /\ proc' = [proc EXCEPT ![p] = Idle]
  BY DEF Create, Done
<1>1. CASE UNCHANGED <<codes, tally>>
  <2>1. \A k \in DOMAIN codes' : codes'[k].attempts = codes[k].attempts /\ {"type", "attempts"} \subseteq DOMAIN codes'[k]
    BY <1>1 DEF GuessInv, CodeSound
  <2> QED
    BY <1>0, <1>1, <2>1, GoesElsewhere DEF Done
<1>2. CASE ~UNCHANGED <<codes, tally>>
  <2>1. PICK n \in Nat : Issued = 1 .. n
    BY DEF GuessInv
  <2> DEFINE c == n + 1
  <2>2. Cardinality(Issued) + 1 = c /\ c \notin Issued
    <3>1. Cardinality(1 .. n) = n
      BY FS_Interval
    <3> QED
      BY <2>1, <3>1
  <2>3. PICK code : /\ {"type", "attempts"} \subseteq DOMAIN code /\ code.attempts = 0
                    /\ codes' = [k \in DOMAIN codes \cup {c} |-> IF k # c THEN codes[k] ELSE code]
                    /\ wrong' = [k \in Issued \cup {c} |-> IF k = c THEN 0 ELSE wrong[k]]
                    /\ spared' = [k \in Issued \cup {c} |-> IF k = c THEN 0 ELSE spared[k]]
    <3> DEFINE new == [type |-> TypeOf(r(p)), attempts |-> 0, verified |-> FALSE, expired |-> FALSE,
                       pending |-> IF proc[p].op = "sendEmail" THEN r(p).email ELSE me(p).email]
    <3>1. /\ codes' = [k \in DOMAIN codes \cup {c} |-> IF k # c THEN codes[k] ELSE new]
          /\ wrong' = [k \in Issued \cup {c} |-> IF k = c THEN 0 ELSE wrong[k]]
          /\ spared' = [k \in Issued \cup {c} |-> IF k = c THEN 0 ELSE spared[k]]
      BY <1>2, <2>2 DEF Create
    <3>2. {"type", "attempts"} \subseteq DOMAIN new /\ new.attempts = 0
      OBVIOUS
    <3> HIDE DEF new
    <3> QED
      BY <3>1, <3>2
  <2>4. Issued' = 1 .. c
    <3>1. Issued' = Issued \cup {c}
      BY <2>3 DEF Issued
    <3> QED
      BY <2>1, <3>1
  <2>5. DOMAIN codes' \subseteq Issued'
    BY <2>1, <2>3, <2>4 DEF GuessInv
  <2>6. proc'[p] = Idle /\ \A o \in Process \ {p} : proc'[o] = proc[o]
    BY <1>0 DEF AccountInv
  <2>7. ASSUME NEW o \in Process PROVE Placed(proc'[o], Issued')
    <3>1. Placed(proc[o], Issued)
      BY DEF GuessInv
    <3> QED
      BY <2>1, <2>4, <2>6, <3>1 DEF Placed
  <2>8. ASSUME NEW o \in Process PROVE ~Records(proc'[o], c)
    <3>1. Placed(proc[o], Issued)
      BY DEF GuessInv
    <3> QED
      BY <2>2, <2>6, <3>1 DEF Placed, Records, Idle
  <2>9. Recording(c)' = {}
    <3>1. Recording(c)' = {o \in Process : Records(proc'[o], c)}
      BY DEF Recording, Records, At
    <3> QED
      BY <2>8, <3>1
  <2>10. ASSUME NEW k \in Issued'
         PROVE  wrong'[k] \in Int /\ spared'[k] \in Int /\ IsFiniteSet(Recording(k)')
    <3>1. CASE k = c
      BY <2>3, <2>9, <3>1, FS_EmptySet
    <3>2. CASE k # c
      <4>1. k \in Issued
        BY <2>1, <2>4, <3>2
      <4>2. wrong[k] \in Int /\ spared[k] \in Int /\ IsFiniteSet(Recording(k))
        BY <4>1 DEF GuessInv, Tallied
      <4>3. wrong'[k] = wrong[k] /\ spared'[k] = spared[k]
        BY <2>3, <3>2, <4>1
      <4> QED
        BY <1>0, <4>2, <4>3, Recorders
    <3> QED
      BY <3>1, <3>2
  <2>11. ASSUME NEW k \in DOMAIN codes'
         PROVE  CodeSound(codes'[k], Net(k)', Cardinality(Recording(k)'))
    <3>1. CASE k = c
      <4>1. codes'[c] = code /\ Net(c)' = 0
        BY <2>3 DEF Net
      <4>2. Cardinality(Recording(c)') = 0
        BY <2>9, FS_EmptySet
      <4> QED
        BY <2>3, <3>1, <4>1, <4>2, AccountBounds DEF CodeSound
    <3>2. CASE k # c
      <4>1. k \in DOMAIN codes /\ k \in Issued /\ codes'[k] = codes[k] /\ Net(k)' = Net(k)
        BY <2>3, <3>2 DEF GuessInv, Net
      <4>2. IsFiniteSet(Recording(k)) /\ CodeSound(codes[k], Net(k), Cardinality(Recording(k)))
        BY <4>1 DEF GuessInv
      <4>3. Bit(Idle, k) = 0 /\ Bit(proc[p], k) = 0
        BY <1>0 DEF Bit, Records, At, Idle
      <4>4. Cardinality(Recording(k)') = Cardinality(Recording(k))
        <5>1. /\ Cardinality(Recording(k)) \in Nat
              /\ Cardinality(Recording(k)') = Cardinality(Recording(k)) + Bit(Idle, k) - Bit(proc[p], k)
          BY <1>0, <4>2, Recorders
        <5> QED
          BY <4>3, <5>1
      <4> QED
        BY <4>1, <4>2, <4>4
    <3> QED
      BY <3>1, <3>2
  <2>12. n + 1 \in Nat
    OBVIOUS
  <2>13. Tallied'
    BY <2>3, <2>10 DEF Tallied, Issued
  <2> QED
    BY <2>4, <2>5, <2>7, <2>10, <2>11, <2>12, <2>13 DEF GuessInv
<1> QED
  BY <1>1, <1>2

(* A code expires.                                                          *)
LEMMA ExpireGuess ==
  ASSUME GuessInv, NEW c \in DOMAIN codes, Expire(c)
  PROVE  GuessInv'
<1>1. codes' = [codes EXCEPT ![c].expired = TRUE] /\ UNCHANGED <<proc, tally>>
  BY DEF Expire
<1>2. DOMAIN codes' = DOMAIN codes /\ \A k \in DOMAIN codes :
        DOMAIN codes'[k] = DOMAIN codes[k] /\ ("attempts" \in DOMAIN codes[k] => codes'[k].attempts = codes[k].attempts)
  BY <1>1
<1>3. /\ Issued' = Issued /\ \A k : Recording(k)' = Recording(k) /\ Net(k)' = Net(k)
      /\ Tallied => Tallied'
  BY <1>1 DEF Issued, Recording, At, Net, Tallied, tally
<1>4. ASSUME NEW k \in DOMAIN codes'
      PROVE  CodeSound(codes'[k], Net(k)', Cardinality(Recording(k)'))
  BY <1>1, <1>2, <1>3 DEF GuessInv, CodeSound
<1> QED
  BY <1>1, <1>2, <1>3, <1>4 DEF GuessInv

(* GuessInv is inductive, given AccountInv.                                 *)
LEMMA GuessInvariant == AccountsSpec => []GuessInv
<1>1. AccountsInit => GuessInv
  <2> SUFFICES ASSUME AccountsInit PROVE GuessInv
    OBVIOUS
  <2>1. proc = [p \in Process |-> Idle]
    BY DEF AccountsInit
  <2>2. \A c : Recording(c) = {}
    BY <2>1 DEF Recording, At, Idle
  <2>3. \A c : IsFiniteSet(Recording(c)) /\ Cardinality(Recording(c)) = 0
    BY <2>2, FS_EmptySet
  <2>4. CASE codes = <<>> /\ wrong = <<>> /\ spared = <<>>
    <3>1. DOMAIN codes = {} /\ Issued = 1 .. 0 /\ DOMAIN spared = {}
      BY <2>4 DEF Issued
    <3> QED
      BY <2>1, <2>3, <3>1 DEF GuessInv, Placed, Tallied
  <2> DEFINE First(t, v, e) == [c \in {1} |-> [type |-> t, attempts |-> MaxAttempts - 1, verified |-> v,
                                                expired |-> FALSE, pending |-> e]]
  <2>5. ASSUME NEW t, NEW v, NEW e, codes = First(t, v, e), wrong = [c \in {1} |-> MaxAttempts - 1],
               spared = [c \in {1} |-> 0]
        PROVE  GuessInv
    <3>1. /\ DOMAIN codes = {1} /\ {"type", "attempts"} \subseteq DOMAIN codes[1]
          /\ codes[1].attempts = MaxAttempts - 1
          /\ DOMAIN wrong = {1} /\ wrong[1] = MaxAttempts - 1
          /\ DOMAIN spared = {1} /\ spared[1] = 0
      BY <2>5
    <3>2. MaxAttempts - 1 \in Nat
      BY AccountBounds
    <3>3. Issued = 1 .. 1
      BY <3>1 DEF Issued
    <3>4. CodeSound(codes[1], Net(1), 0)
      BY <3>1, <3>2, AccountBounds DEF CodeSound, Net
    <3>5. Tallied
      BY <3>1, <3>2, <3>3 DEF Tallied
    <3> QED
      BY <2>1, <2>3, <3>1, <3>3, <3>4, <3>5 DEF GuessInv, Placed
  <2> QED
    <3>1. PICK two \in BOOLEAN, password \in Password, email \in Email \ TakenEmail :
            \/ /\ user = Account(0, FALSE, FALSE, password, email) /\ sessions = {}
               /\ codes = <<>> /\ wrong = <<>> /\ spared = <<>>
            \/ /\ user = Account(1, TRUE, two, password, email)
               /\ sessions = {Token(1, 0, password)}
               /\ \E t \in CodeType, v \in BOOLEAN, e \in Email :
                    /\ t # "reset" => ~v
                    /\ t # "change email" => e = email
                    /\ codes = First(t, v, e)
               /\ wrong = [c \in {1} |-> MaxAttempts - 1] /\ spared = [c \in {1} |-> 0]
      BY Zenon DEF AccountsInit
    <3> HIDE DEF First
    <3> QED
      BY <2>4, <2>5, <3>1
<1>2. AccountInv /\ GuessInv /\ [AccountsNext]_accountVars => GuessInv'
  <2> SUFFICES ASSUME AccountInv, GuessInv, [AccountsNext]_accountVars PROVE GuessInv'
    OBVIOUS
  <2>1. CASE UNCHANGED accountVars
    BY <2>1 DEF accountVars, tally, GuessInv, Issued, Recording, At, Tallied, Net
  <2>2. ASSUME NEW p \in Process, AccountStep(p)
        PROVE  GuessInv'
    <3>1. ASSUME NEW req \in Request, Begin(p, req) PROVE GuessInv'
      BY <3>1, BeginsNoGuess
    <3>2. CASE Die(p)
      BY <3>2, DieGuess
    <3>3. CASE Whoami(p) \/ Read(p)
      BY <3>3, ReadNoGuess
    <3>4. CASE Find(p)
      BY <3>4, FindGuess
    <3>5. CASE Record(p)
      BY <3>5, RecordGuess
    <3>6. CASE Destroy(p)
      BY <3>6, DestroyGuess
    <3>7. CASE Create(p)
      BY <3>7, CreateGuess
    <3>8. CASE \/ Insert(p) \/ Clear(p) \/ Consume(p) \/ Trust(p) \/ OpenSession(p) \/ Mark(p)
               \/ SetPassword(p) \/ SetEmail(p) \/ Switch(p) \/ DeleteAccount(p)
      BY <3>8, OtherNoGuess
    <3> QED
      BY <2>2, <3>1, <3>2, <3>3, <3>4, <3>5, <3>6, <3>7, <3>8 DEF AccountStep
  <2>3. ASSUME NEW c \in DOMAIN codes, Expire(c) PROVE GuessInv'
    BY <2>3, ExpireGuess
  <2> QED
    BY <2>1, <2>2, <2>3 DEF AccountsNext
<1> QED
  BY <1>1, <1>2, AccountInvariant, PTL DEF AccountsSpec

(* Finding a code, comparing it, recording a wrong guess and destroying the   *)
(* code are four awaits (verificationCodes.js): a code that is still there    *)
(* was guessed wrong fewer than MaxAttempts times, but for the guesses being   *)
(* recorded or punished and for those whose deletion of it failed.            *)
THEOREM GuessTheorem == AccountsSpec => []GuessesCapped
<1>1. GuessInv => GuessesCapped
  <2> SUFFICES ASSUME GuessInv, NEW c \in DOMAIN codes
               PROVE  wrong[c] - Cardinality(Recording(c)) - spared[c] < MaxAttempts
    BY DEF GuessesCapped
  <2>1. c \in Issued /\ Net(c) - Cardinality(Recording(c)) < MaxAttempts
    BY DEF GuessInv, CodeSound
  <2>2. wrong[c] \in Int /\ spared[c] \in Int /\ Cardinality(Recording(c)) \in Nat
    BY <2>1, FS_CardinalityType DEF GuessInv, Tallied
  <2> QED
    BY <2>1, <2>2 DEF Net
<1> QED
  BY <1>1, GuessInvariant, PTL

(***************************************************************************)
(* Membership                                                               *)
(***************************************************************************)

IsMember(m) == m = [id |-> m.id, role |-> m.role]
IsInvite(v) ==
  v = [to |-> v.to, role |-> v.role, status |-> v.status, token |-> v.token, expired |-> v.expired]
With(j, may, row, token, seen, at) ==
  [op |-> j.op, ask |-> j.ask, may |-> may, row |-> row, token |-> token, seen |-> seen, at |-> at]
IsJob(j) ==
  j = [op |-> j.op, ask |-> j.ask, may |-> j.may, row |-> j.row, token |-> j.token, seen |-> j.seen,
       at |-> j.at]

Mailing == {"mail", "undo"}

\* A request that has mailed nothing yet holds the first token.
IsAsk(j) ==
  j = Free \/ (IsJob(j) /\ j.op # "none" /\ (j.at \notin Mailing => j.token = 0))

\* The rows have their fields, and the requests theirs.
RowsTyped ==
  /\ \A u \in DOMAIN members : IsMember(members[u])
  /\ \A i \in DOMAIN invites : IsInvite(invites[i])

JobsTyped ==
  /\ job = [p \in Clerk |-> job[p]]
  /\ \A p \in Clerk : IsAsk(job[p])

\* The same invite later: what was not pending is not pending again.
Follows(v, w) ==
  IsInvite(w) /\ w.role = v.role /\ w.token = v.token /\ (w.status = "PENDING" => v.status = "PENDING")

\* Request j has the link of the invite i to mail, as it is now, or takes i back.
Bears(j, i, v) ==
  j # Free /\ j.row = i /\ (j.at = "undo" \/ (j.at = "mail" /\ j.token = v.token))

\* LinksArrive, and who is at work on the link.
LinksOnTheirWay ==
  \A i \in DOMAIN invites :
    \/ ~Pending(i) \/ i \in stuck \/ <<i, invites[i].token>> \in mailed
    \/ \E p \in Clerk : Bears(job[p], i, invites[i])

(* One request's step leaves the others alone.                              *)
LEMMA OneMoves ==
  ASSUME NEW j, j = [c \in Clerk |-> j[c]], NEW p \in Clerk, NEW x, NEW k, k = [j EXCEPT ![p] = x]
  PROVE  /\ k = [c \in Clerk |-> k[c]] /\ k[p] = x
         /\ \A c \in Clerk \ {p} : k[c] = j[c]
OBVIOUS

(* Two fields of a request change at once.                                  *)
LEMMA TwoFields ==
  ASSUME NEW j, j = [c \in Clerk |-> j[c]], NEW p \in Clerk, NEW f, NEW g, NEW a, NEW b
  PROVE  [j EXCEPT ![p][f] = a, ![p][g] = b] = [j EXCEPT ![p] = [j[p] EXCEPT ![f] = a, ![g] = b]]
<1> DEFINE y == [j[p] EXCEPT ![f] = a]
           h == [j EXCEPT ![p] = y]
           z == [y EXCEPT ![g] = b]
<1>1. [j EXCEPT ![p][f] = a] = h
  OBVIOUS
<1>2. h[p] = y /\ h = [c \in Clerk |-> IF c = p THEN y ELSE j[c]]
  <2> HIDE DEF y
  <2> QED
    OBVIOUS
<1>3. [h EXCEPT ![p][g] = b] = [h EXCEPT ![p] = z]
  <2>1. [h EXCEPT ![p][g] = b] = [h EXCEPT ![p] = [h[p] EXCEPT ![g] = b]]
    OBVIOUS
  <2> HIDE DEF h, y
  <2> QED
    BY <2>1, <1>2
<1>4. [h EXCEPT ![p] = z] = [j EXCEPT ![p] = z]
  <2> HIDE DEF y, z, h
  <2> QED
    BY <1>2
<1> QED
  BY <1>1, <1>3, <1>4

(***************************************************************************)
(* Rows                                                                     *)
(***************************************************************************)

(* An invite that stays is the same invite.                                 *)
LEMMA FollowsItself ==
  ASSUME RowsTyped, NEW i \in DOMAIN invites
  PROVE  Follows(invites[i], invites[i])
BY DEF RowsTyped, Follows

(* An invite that is no longer pending.                                     *)
LEMMA Closed ==
  ASSUME NEW v, IsInvite(v), NEW s, s # "PENDING"
  PROVE  /\ Follows(v, [v EXCEPT !.status = s]) /\ [v EXCEPT !.status = s].status # "PENDING"
         /\ [v EXCEPT !.status = s].role = v.role
<1>1. [v EXCEPT !.status = s] = [to |-> v.to, role |-> v.role, status |-> s, token |-> v.token, expired |-> v.expired]
  BY DEF IsInvite
<1> QED
  BY <1>1 DEF Follows, IsInvite

(* One invite is closed, the others stay.                                   *)
LEMMA OneClosed ==
  ASSUME RowsTyped, NEW i, NEW s, s # "PENDING", invites' = [invites EXCEPT ![i].status = s]
  PROVE  /\ DOMAIN invites' = DOMAIN invites
         /\ \A k \in DOMAIN invites : Follows(invites[k], invites'[k]) /\ (k = i => ~Pending(k)')
<1>1. /\ DOMAIN invites' = DOMAIN invites
      /\ \A k \in DOMAIN invites : invites'[k] = IF k = i THEN [invites[i] EXCEPT !.status = s] ELSE invites[k]
  OBVIOUS
<1>2. ASSUME NEW k \in DOMAIN invites
      PROVE  Follows(invites[k], invites'[k]) /\ (k = i => ~Pending(k)')
  <2>1. CASE k = i
    BY <1>1, <2>1, Closed DEF RowsTyped, Pending
  <2>2. CASE k # i
    BY <1>1, <2>2, FollowsItself
  <2> QED
    BY <2>1, <2>2
<1> QED
  BY <1>1, <1>2

(* A deleted role's invites go, the others stay.                            *)
LEMMA RoleGone ==
  ASSUME RowsTyped, NEW role,
         invites' = [i \in DOMAIN invites |-> IF invites[i].role = role
                       THEN [invites[i] EXCEPT !.status = "GONE"] ELSE invites[i]]
  PROVE  /\ DOMAIN invites' = DOMAIN invites
         /\ \A k \in DOMAIN invites :
              Follows(invites[k], invites'[k]) /\ (invites[k].role = role => ~Pending(k)')
<1>1. ASSUME NEW k \in DOMAIN invites
      PROVE  Follows(invites[k], invites'[k]) /\ (invites[k].role = role => ~Pending(k)')
  <2>1. CASE invites[k].role = role
    <3>1. invites'[k] = [invites[k] EXCEPT !.status = "GONE"]
      BY <2>1
    <3> QED
      BY <3>1, Closed DEF RowsTyped, Pending
  <2>2. CASE invites[k].role # role
    <3>1. invites'[k] = invites[k]
      BY <2>2
    <3> QED
      BY <2>2, <3>1, FollowsItself
  <2> QED
    BY <2>1, <2>2
<1> QED
  BY <1>1

(* An invite is made, and takes the place of those its request has seen.    *)
LEMMA OneMade ==
  ASSUME RowsTyped, NEW p \in Clerk, NEW i,
         invites' = [k \in DOMAIN invites \cup {i} |->
               CASE k = i -> [to |-> q(p).to, role |-> q(p).role, status |-> "PENDING", token |-> 0, expired |-> FALSE]
                 [] k # i /\ k \in job[p].seen /\ Pending(k) -> [invites[k] EXCEPT !.status = "REVOKED"]
                 [] OTHER -> invites[k]]
  PROVE  /\ DOMAIN invites' = DOMAIN invites \cup {i}
         /\ IsInvite(invites'[i]) /\ invites'[i].role = q(p).role /\ invites'[i].token = 0
         /\ \A k \in DOMAIN invites : k # i => Follows(invites[k], invites'[k])
<1>1. invites'[i] = [to |-> q(p).to, role |-> q(p).role, status |-> "PENDING", token |-> 0, expired |-> FALSE]
  OBVIOUS
<1>2. ASSUME NEW k \in DOMAIN invites, k # i
      PROVE  Follows(invites[k], invites'[k])
  <2>1. CASE k \in job[p].seen /\ Pending(k)
    <3>1. invites'[k] = [invites[k] EXCEPT !.status = "REVOKED"]
      BY <1>2, <2>1
    <3>2. IsInvite(invites[k])
      BY DEF RowsTyped
    <3>3. Follows(invites[k], [invites[k] EXCEPT !.status = "REVOKED"])
      BY <3>2, Closed
    <3> QED
      BY <3>1, <3>3
  <2>2. CASE ~(k \in job[p].seen /\ Pending(k))
    <3>1. invites'[k] = invites[k]
      BY <1>2, <2>2
    <3> QED
      BY <3>1, FollowsItself
  <2> QED
    BY <2>1, <2>2
<1> QED
  BY <1>1, <1>2 DEF IsInvite

(* An invite gets a fresh token.                                            *)
LEMMA OneReplaced ==
  ASSUME RowsTyped, NEW i, NEW t, NEW e, invites' = [invites EXCEPT ![i].token = t, ![i].expired = e]
  PROVE  /\ DOMAIN invites' = DOMAIN invites
         /\ \A k \in DOMAIN invites :
              /\ IsInvite(invites'[k]) /\ invites'[k].role = invites[k].role
              /\ invites'[k].status = invites[k].status
              /\ invites'[k].token = IF k = i THEN t ELSE invites[k].token
<1> DEFINE v == invites[i]
           w == [to |-> v.to, role |-> v.role, status |-> v.status, token |-> t, expired |-> e]
           f == [invites EXCEPT ![i].token = t]
<1>1. DOMAIN invites' = DOMAIN invites
  OBVIOUS
<1>2. ASSUME i \in DOMAIN invites
      PROVE  invites'[i] = w
  <2>1. f[i] = [v EXCEPT !.token = t]
    BY <1>2
  <2>2. f[i] = [to |-> v.to, role |-> v.role, status |-> v.status, token |-> t, expired |-> v.expired]
    BY <1>2, <2>1 DEF RowsTyped, IsInvite
  <2>3. DOMAIN f = DOMAIN invites
    OBVIOUS
  <2>4. [f EXCEPT ![i].expired = e][i] = [f[i] EXCEPT !.expired = e]
    BY <1>2, <2>3
  <2>5. [f[i] EXCEPT !.expired = e] = w
    <3> DEFINE x == [to |-> v.to, role |-> v.role, status |-> v.status, token |-> t, expired |-> v.expired]
    <3>1. [x EXCEPT !.expired = e] = w
      OBVIOUS
    <3>2. f[i] = x
      BY <2>2
    <3> HIDE DEF x, f, w
    <3> QED
      BY <3>1, <3>2
  <2>6. invites' = [f EXCEPT ![i].expired = e]
    OBVIOUS
  <2> QED
    BY <2>4, <2>5, <2>6
<1>3. ASSUME NEW k \in DOMAIN invites, k # i
      PROVE  invites'[k] = invites[k]
  BY <1>3
<1> QED
  BY <1>1, <1>2, <1>3 DEF RowsTyped, IsInvite

(* An invite lapses.                                                        *)
LEMMA OneLapses ==
  ASSUME RowsTyped, NEW i, NEW e, invites' = [invites EXCEPT ![i].expired = e]
  PROVE  /\ DOMAIN invites' = DOMAIN invites
         /\ \A k \in DOMAIN invites : Follows(invites[k], invites'[k])
<1> DEFINE v == invites[i]
           w == [to |-> v.to, role |-> v.role, status |-> v.status, token |-> v.token, expired |-> e]
<1>1. DOMAIN invites' = DOMAIN invites
  OBVIOUS
<1>2. ASSUME i \in DOMAIN invites
      PROVE  invites'[i] = w
  <2>1. invites'[i] = [v EXCEPT !.expired = e]
    BY <1>2
  <2> QED
    BY <1>2, <2>1 DEF RowsTyped, IsInvite
<1>3. ASSUME NEW k \in DOMAIN invites, k # i
      PROVE  invites'[k] = invites[k]
  BY <1>3
<1>4. ASSUME NEW k \in DOMAIN invites
      PROVE  Follows(invites[k], invites'[k])
  BY <1>2, <1>3, FollowsItself DEF Follows, IsInvite
<1> QED
  BY <1>1, <1>4

(***************************************************************************)
(* Every member and every pending invite has a role                         *)
(***************************************************************************)

(* No invite comes anew, no member is touched, no role goes.                *)
LEMMA NothingLost ==
  ASSUME RowsTyped, RolesStand, DOMAIN roles \subseteq DOMAIN roles', UNCHANGED members,
         DOMAIN invites' = DOMAIN invites, \A k \in DOMAIN invites : Follows(invites[k], invites'[k])
  PROVE  RowsTyped' /\ RolesStand'
<1>1. RowsTyped'
  BY DEF RowsTyped, Follows
<1>2. \A u \in DOMAIN members' : members'[u].role \in DOMAIN roles'
  BY DEF RolesStand
<1>3. ASSUME NEW k \in DOMAIN invites, Pending(k)'
      PROVE  invites'[k].role \in DOMAIN roles'
  BY <1>3 DEF RolesStand, Follows, Pending
<1> QED
  BY <1>1, <1>2, <1>3 DEF RolesStand

(* Roles, members and invites are left alone.                               *)
LEMMA RowsAlone ==
  ASSUME RowsTyped, RolesStand, UNCHANGED <<roles, members, invites>>
  PROVE  RowsTyped' /\ RolesStand'
BY FollowsItself, NothingLost

(* Invites are left alone, and the members have roles.                      *)
LEMMA MembersMove ==
  ASSUME RowsTyped, RolesStand, UNCHANGED <<roles, invites>>,
         \A u \in DOMAIN members' : IsMember(members'[u]) /\ members'[u].role \in DOMAIN roles
  PROVE  RowsTyped' /\ RolesStand'
BY DEF RowsTyped, RolesStand, Pending

LEMMA RolesStep ==
  ASSUME RowsTyped, RolesStand, [MembershipNext]_memberVars
  PROVE  RowsTyped' /\ RolesStand'
<1>1. ASSUME NEW p \in Clerk, \E ask \in Asked : Ask(p, ask)
      PROVE  RowsTyped' /\ RolesStand'
  BY <1>1, RowsAlone DEF Ask
<1>2. ASSUME NEW p \in Clerk, Guard(p) \/ Fail(p) \/ Look(p) \/ Known(p) \/ Revoking(p)
      PROVE  RowsTyped' /\ RolesStand'
  BY <1>2, RowsAlone DEF Guard, Fail, Look, Known, Revoking, Reads
<1>3. ASSUME NEW p \in Clerk, CreateInvite(p)
      PROVE  RowsTyped' /\ RolesStand'
  <2> DEFINE i == Cardinality(DOMAIN invites) + 1
  <2>1. CASE q(p).role \notin DOMAIN roles
    BY <1>3, <2>1, RowsAlone DEF CreateInvite
  <2>2. CASE q(p).role \in DOMAIN roles
    <3>1. /\ DOMAIN invites' = DOMAIN invites \cup {i}
          /\ IsInvite(invites'[i]) /\ invites'[i].role = q(p).role
          /\ \A k \in DOMAIN invites : k # i => Follows(invites[k], invites'[k])
      <4> HIDE DEF i
      <4>1. invites' = [k \in DOMAIN invites \cup {i} |->
               CASE k = i -> [to |-> q(p).to, role |-> q(p).role, status |-> "PENDING", token |-> 0, expired |-> FALSE]
                 [] k # i /\ k \in job[p].seen /\ Pending(k) -> [invites[k] EXCEPT !.status = "REVOKED"]
                 [] OTHER -> invites[k]]
        BY <1>3, <2>2 DEF CreateInvite, i
      <4> QED
        BY <4>1, OneMade
    <3>2. UNCHANGED <<roles, members>>
      BY <1>3 DEF CreateInvite
    <3> HIDE DEF i
    <3>3. RowsTyped'
      BY <3>1, <3>2 DEF RowsTyped, Follows
    <3>4. ASSUME NEW k \in DOMAIN invites', Pending(k)'
          PROVE  invites'[k].role \in DOMAIN roles
      BY <2>2, <3>1, <3>4 DEF RolesStand, Follows, Pending
    <3> QED
      BY <3>2, <3>3, <3>4 DEF RolesStand
  <2> QED
    BY <2>1, <2>2
<1>4. ASSUME NEW p \in Clerk, Replace(p)
      PROVE  RowsTyped' /\ RolesStand'
  <2>1. CASE UNCHANGED invites
    BY <1>4, <2>1, RowsAlone DEF Replace
  <2>2. CASE ~UNCHANGED invites
    <3> DEFINE i == job[p].row
    <3>1. invites' = [invites EXCEPT ![i].token = invites[i].token + 1, ![i].expired = FALSE]
      BY <1>4, <2>2 DEF Replace
    <3>2. /\ DOMAIN invites' = DOMAIN invites
          /\ \A k \in DOMAIN invites : /\ IsInvite(invites'[k]) /\ invites'[k].role = invites[k].role
                                       /\ invites'[k].status = invites[k].status
      BY <3>1, OneReplaced
    <3>3. UNCHANGED <<roles, members>>
      BY <1>4 DEF Replace
    <3> QED
      BY <3>2, <3>3 DEF RowsTyped, RolesStand, Pending
  <2> QED
    BY <2>1, <2>2
<1>5. ASSUME NEW p \in Clerk, Mail(p)
      PROVE  RowsTyped' /\ RolesStand'
  BY <1>5, RowsAlone DEF Mail
<1>6. ASSUME NEW p \in Clerk, Undo(p)
      PROVE  RowsTyped' /\ RolesStand'
  BY <1>6, OneClosed, NothingLost DEF Undo
<1>7. ASSUME NEW p \in Clerk, Revoke(p)
      PROVE  RowsTyped' /\ RolesStand'
  <2>1. CASE UNCHANGED invites
    BY <1>7, <2>1, RowsAlone DEF Revoke
  <2>2. CASE ~UNCHANGED invites
    <3>1. invites' = [invites EXCEPT ![q(p).invite].status = "REVOKED"] /\ UNCHANGED <<roles, members>>
      BY <1>7, <2>2 DEF Revoke
    <3> QED
      BY <3>1, OneClosed, NothingLost
  <2> QED
    BY <2>1, <2>2
<1>8. ASSUME NEW p \in Clerk, Accept(p)
      PROVE  RowsTyped' /\ RolesStand'
  <2> DEFINE i == job[p].row
             u == q(p).by
             row == [id |-> IF u \in DOMAIN members THEN members[u].id ELSE joined + 1, role |-> invites[i].role]
  <2>1. CASE UNCHANGED invites /\ UNCHANGED members
    BY <1>8, <2>1, RowsAlone DEF Accept
  <2>2. CASE ~(UNCHANGED invites /\ UNCHANGED members)
    <3>1. /\ invites[i].role \in DOMAIN roles
          /\ members' = [v \in DOMAIN members \cup {u} |-> IF v = u THEN row ELSE members[v]]
          /\ invites' = [invites EXCEPT ![i].status = "ACCEPTED"]
      BY <1>8, <2>2 DEF Accept
    <3>2. UNCHANGED roles
      BY <1>8 DEF Accept
    <3>3. IsMember(row) /\ row.role \in DOMAIN roles
      BY <3>1 DEF IsMember
    <3> HIDE DEF row, u
    <3>4. \A v \in DOMAIN members' : IsMember(members'[v]) /\ members'[v].role \in DOMAIN roles
      BY <3>1, <3>3 DEF RowsTyped, RolesStand
    <3>5. /\ DOMAIN invites' = DOMAIN invites
          /\ \A k \in DOMAIN invites : Follows(invites[k], invites'[k])
      BY <3>1, OneClosed
    <3>6. RowsTyped'
      BY <3>4, <3>5 DEF RowsTyped, Follows
    <3>7. ASSUME NEW k \in DOMAIN invites', Pending(k)'
          PROVE  invites'[k].role \in DOMAIN roles
      BY <3>5, <3>7 DEF RolesStand, Follows, Pending
    <3> QED
      BY <3>2, <3>4, <3>6, <3>7 DEF RolesStand
  <2> QED
    BY <2>1, <2>2
<1>9. ASSUME NEW p \in Clerk, CreateRole(p)
      PROVE  RowsTyped' /\ RolesStand'
  <2>1. DOMAIN roles \subseteq DOMAIN roles'
    BY <1>9 DEF CreateRole
  <2>2. UNCHANGED <<members, invites>>
    BY <1>9 DEF CreateRole
  <2> QED
    BY <2>1, <2>2, FollowsItself, NothingLost
<1>10. ASSUME NEW p \in Clerk, EditRole(p)
       PROVE  RowsTyped' /\ RolesStand'
  <2>1. DOMAIN roles \subseteq DOMAIN roles'
    BY <1>10 DEF EditRole
  <2>2. UNCHANGED <<members, invites>>
    BY <1>10 DEF EditRole
  <2> QED
    BY <2>1, <2>2, FollowsItself, NothingLost
<1>11. ASSUME NEW p \in Clerk, DeleteRole(p)
       PROVE  RowsTyped' /\ RolesStand'
  <2> DEFINE role == q(p).role
  <2>1. CASE \E u \in DOMAIN members : members[u].role = role
    BY <1>11, <2>1, RowsAlone DEF DeleteRole
  <2>2. CASE ~ \E u \in DOMAIN members : members[u].role = role
    <3>1. /\ roles' = [k \in DOMAIN roles \ {role} |-> roles[k]]
          /\ invites' = [i \in DOMAIN invites |-> IF invites[i].role = role
                           THEN [invites[i] EXCEPT !.status = "GONE"] ELSE invites[i]]
          /\ UNCHANGED members
      BY <1>11, <2>2 DEF DeleteRole
    <3> HIDE DEF role
    <3>2. /\ DOMAIN invites' = DOMAIN invites
          /\ \A k \in DOMAIN invites :
               Follows(invites[k], invites'[k]) /\ (invites[k].role = role => ~Pending(k)')
      BY <3>1, RoleGone
    <3>3. DOMAIN roles' = DOMAIN roles \ {role}
      BY <3>1
    <3>4. RowsTyped'
      BY <3>1, <3>2 DEF RowsTyped, Follows
    <3>5. \A u \in DOMAIN members' : members'[u].role \in DOMAIN roles'
      BY <2>2, <3>1, <3>3 DEF RolesStand
    <3>6. ASSUME NEW k \in DOMAIN invites', Pending(k)'
          PROVE  invites'[k].role \in DOMAIN roles'
      BY <3>2, <3>3, <3>6 DEF RolesStand, Follows, Pending
    <3> QED
      BY <3>4, <3>5, <3>6 DEF RolesStand
  <2> QED
    BY <2>1, <2>2
<1>12. ASSUME NEW p \in Clerk, Assign(p)
       PROVE  RowsTyped' /\ RolesStand'
  <2>1. UNCHANGED <<roles, invites>>
    BY <1>12 DEF Assign
  <2>2. CASE UNCHANGED members
    BY <2>1, <2>2, RowsAlone
  <2>3. CASE ~UNCHANGED members
    <3>1. q(p).role \in DOMAIN roles /\ members' = [members EXCEPT ![q(p).user].role = q(p).role]
      BY <1>12, <2>3 DEF Assign
    <3>2. ASSUME NEW u \in DOMAIN members
          PROVE  IsMember(members'[u]) /\ members'[u].role \in DOMAIN roles
      <4>1. CASE u = q(p).user
        <5>1. members'[u] = [members[u] EXCEPT !.role = q(p).role]
          BY <3>1, <4>1
        <5>2. members'[u] = [id |-> members[u].id, role |-> q(p).role]
          BY <5>1 DEF RowsTyped, IsMember
        <5> QED
          BY <3>1, <5>2 DEF IsMember
      <4>2. CASE u # q(p).user
        <5>1. members'[u] = members[u]
          BY <3>1, <4>2
        <5> QED
          BY <5>1 DEF RowsTyped, RolesStand
      <4> QED
        BY <4>1, <4>2
    <3>3. DOMAIN members' = DOMAIN members
      BY <3>1
    <3> QED
      BY <2>1, <3>2, <3>3, MembersMove
  <2> QED
    BY <2>2, <2>3
<1>13. ASSUME NEW p \in Clerk, RemoveMember(p)
       PROVE  RowsTyped' /\ RolesStand'
  <2>1. UNCHANGED <<roles, invites>>
    BY <1>13 DEF RemoveMember
  <2>2. CASE UNCHANGED members
    BY <2>1, <2>2, RowsAlone
  <2>3. CASE ~UNCHANGED members
    <3>1. members' = [u \in DOMAIN members \ {q(p).user} |-> members[u]]
      BY <1>13, <2>3 DEF RemoveMember
    <3>2. \A u \in DOMAIN members' : IsMember(members'[u]) /\ members'[u].role \in DOMAIN roles
      BY <3>1 DEF RowsTyped, RolesStand
    <3> QED
      BY <2>1, <3>2, MembersMove
  <2> QED
    BY <2>2, <2>3
<1>14. ASSUME NEW i \in DOMAIN invites, Lapse(i)
       PROVE  RowsTyped' /\ RolesStand'
  BY <1>14, OneLapses, NothingLost DEF Lapse
<1>15. ASSUME UNCHANGED memberVars
       PROVE  RowsTyped' /\ RolesStand'
  BY <1>15, RowsAlone DEF memberVars
<1> QED
  BY <1>1, <1>2, <1>3, <1>4, <1>5, <1>6, <1>7, <1>8, <1>9, <1>10, <1>11, <1>12, <1>13, <1>14, <1>15
     DEF MembershipNext, ClerkStep

LEMMA RolesInit ==
  ASSUME MembershipInit
  PROVE  RowsTyped /\ RolesStand
<1>1. PICK to \in User, invited \in DOMAIN roles :
        /\ members \in [User \ {to} -> [id : {0}, role : DOMAIN roles]]
        /\ invites = [i \in {1} |-> [to |-> to, role |-> invited, status |-> "PENDING", token |-> 0, expired |-> FALSE]]
  BY DEF MembershipInit
<1>2. ASSUME NEW u \in DOMAIN members
      PROVE  IsMember(members[u]) /\ members[u].role \in DOMAIN roles
  <2>1. members[u] \in [id : {0}, role : DOMAIN roles]
    BY <1>1
  <2> QED
    BY <2>1 DEF IsMember
<1>3. DOMAIN invites = {1}
      /\ invites[1] = [to |-> to, role |-> invited, status |-> "PENDING", token |-> 0, expired |-> FALSE]
  BY <1>1
<1>4. IsInvite(invites[1]) /\ invites[1].role = invited
  BY <1>3 DEF IsInvite
<1> QED
  BY <1>2, <1>3, <1>4 DEF RowsTyped, RolesStand

(* Whatever a role's deletion races with, members and pending invites have a *)
(* role: the foreign keys of prisma's schema, as the transactions of roles.js, *)
(* members.js and inviteService.js run into them, are enough for it.          *)
THEOREM RolesTheorem == MembershipSpec => []RolesStand
<1>1. MembershipInit => RowsTyped /\ RolesStand
  BY RolesInit
<1>2. RowsTyped /\ RolesStand /\ [MembershipNext]_memberVars => (RowsTyped /\ RolesStand)'
  BY RolesStep
<1> QED
  BY <1>1, <1>2, PTL DEF MembershipSpec

(***************************************************************************)
(* A pending invite's link arrives                                          *)
(***************************************************************************)

(* What one request's step does to the others' invites: nothing.  Its own:   *)
(* whatever is pending after it has been mailed, is given up, is borne by it   *)
(* now, or was pending before with the same token and no business of its.     *)
LEMMA OthersCarryOn ==
  ASSUME LinksOnTheirWay, NEW p, \A c \in Clerk \ {p} : job'[c] = job[c],
         stuck \subseteq stuck', mailed \subseteq mailed',
         \A i \in DOMAIN invites' :
           \/ ~Pending(i)' \/ i \in stuck' \/ <<i, invites'[i].token>> \in mailed'
           \/ p \in Clerk /\ Bears(job'[p], i, invites'[i])
           \/ /\ i \in DOMAIN invites /\ Pending(i) /\ invites'[i].token = invites[i].token
              /\ p \in Clerk => ~Bears(job[p], i, invites[i])
  PROVE  LinksOnTheirWay'
<1>1. ASSUME NEW i \in DOMAIN invites'
      PROVE  \/ ~Pending(i)' \/ i \in stuck' \/ <<i, invites'[i].token>> \in mailed'
             \/ \E c \in Clerk : Bears(job'[c], i, invites'[i])
  <2>1. CASE /\ i \in DOMAIN invites /\ Pending(i) /\ invites'[i].token = invites[i].token
             /\ p \in Clerk => ~Bears(job[p], i, invites[i])
    <3>1. CASE i \in stuck \/ <<i, invites[i].token>> \in mailed
      BY <2>1, <3>1
    <3>2. CASE \E c \in Clerk : Bears(job[c], i, invites[i])
      <4>1. PICK c \in Clerk : Bears(job[c], i, invites[i])
        BY <3>2
      <4>2. c # p /\ job'[c] = job[c]
        BY <2>1, <4>1
      <4>3. Bears(job'[c], i, invites'[i])
        BY <2>1, <4>1, <4>2 DEF Bears
      <4> QED
        BY <4>3
    <3> QED
      BY <2>1, <3>1, <3>2 DEF LinksOnTheirWay
  <2> QED
    BY <2>1
<1> QED
  BY <1>1 DEF LinksOnTheirWay

(* One or two fields of a request.                                          *)
LEMMA FieldAt ==
  ASSUME NEW j, IsJob(j), NEW y
  PROVE  [j EXCEPT !.at = y] = With(j, j.may, j.row, j.token, j.seen, y)
BY DEF IsJob, With

LEMMA FieldsMayAt ==
  ASSUME NEW j, IsJob(j), NEW x, NEW y
  PROVE  [j EXCEPT !.may = x, !.at = y] = With(j, x, j.row, j.token, j.seen, y)
<1>1. [j EXCEPT !.may = x] = With(j, x, j.row, j.token, j.seen, j.at)
  BY DEF IsJob, With
<1>2. [With(j, x, j.row, j.token, j.seen, j.at) EXCEPT !.at = y] = With(j, x, j.row, j.token, j.seen, y)
  BY DEF With
<1>3. [[j EXCEPT !.may = x] EXCEPT !.at = y] = With(j, x, j.row, j.token, j.seen, y)
  BY <1>1, <1>2
<1> QED
  BY <1>3

LEMMA FieldsRowAt ==
  ASSUME NEW j, IsJob(j), NEW x, NEW y
  PROVE  [j EXCEPT !.row = x, !.at = y] = With(j, j.may, x, j.token, j.seen, y)
<1>1. [j EXCEPT !.row = x] = With(j, j.may, x, j.token, j.seen, j.at)
  BY DEF IsJob, With
<1>2. [With(j, j.may, x, j.token, j.seen, j.at) EXCEPT !.at = y] = With(j, j.may, x, j.token, j.seen, y)
  BY DEF With
<1>3. [[j EXCEPT !.row = x] EXCEPT !.at = y] = With(j, j.may, x, j.token, j.seen, y)
  BY <1>1, <1>2
<1> QED
  BY <1>3

LEMMA FieldsAtRow ==
  ASSUME NEW j, IsJob(j), NEW x, NEW y
  PROVE  [j EXCEPT !.at = y, !.row = x] = With(j, j.may, x, j.token, j.seen, y)
<1>1. [j EXCEPT !.at = y] = With(j, j.may, j.row, j.token, j.seen, y)
  BY DEF IsJob, With
<1>2. [With(j, j.may, j.row, j.token, j.seen, y) EXCEPT !.row = x] = With(j, j.may, x, j.token, j.seen, y)
  BY DEF With
<1>3. [[j EXCEPT !.at = y] EXCEPT !.row = x] = With(j, j.may, x, j.token, j.seen, y)
  BY <1>1, <1>2
<1> QED
  BY <1>3

LEMMA FieldsAtToken ==
  ASSUME NEW j, IsJob(j), NEW x, NEW y
  PROVE  [j EXCEPT !.at = y, !.token = x] = With(j, j.may, j.row, x, j.seen, y)
<1>1. [j EXCEPT !.at = y] = With(j, j.may, j.row, j.token, j.seen, y)
  BY DEF IsJob, With
<1>2. [With(j, j.may, j.row, j.token, j.seen, y) EXCEPT !.token = x] = With(j, j.may, j.row, x, j.seen, y)
  BY DEF With
<1>3. [[j EXCEPT !.at = y] EXCEPT !.token = x] = With(j, j.may, j.row, x, j.seen, y)
  BY <1>1, <1>2
<1> QED
  BY <1>3

LEMMA FieldsAtSeen ==
  ASSUME NEW j, IsJob(j), NEW x, NEW y
  PROVE  [j EXCEPT !.at = y, !.seen = x] = With(j, j.may, j.row, j.token, x, y)
<1>1. [j EXCEPT !.at = y] = With(j, j.may, j.row, j.token, j.seen, y)
  BY DEF IsJob, With
<1>2. [With(j, j.may, j.row, j.token, j.seen, y) EXCEPT !.seen = x] = With(j, j.may, j.row, j.token, x, y)
  BY DEF With
<1>3. [[j EXCEPT !.at = y] EXCEPT !.seen = x] = With(j, j.may, j.row, j.token, x, y)
  BY <1>1, <1>2
<1> QED
  BY <1>3

(* A request under way notes what it has read or written, and goes on.       *)
LEMMA Noted ==
  ASSUME NEW j, j.op # "none", NEW may, NEW row, NEW token, NEW seen, NEW at, at \notin Mailing => token = 0
  PROVE  LET k == With(j, may, row, token, seen, at)
         IN IsAsk(k) /\ k.at = at /\ k.row = row /\ k.token = token /\ k # Free
BY DEF IsAsk, IsJob, With, Free

(* The request of a step, and the others.                                   *)
LEMMA JobStep ==
  ASSUME JobsTyped, NEW p \in Clerk, NEW x, job' = [job EXCEPT ![p] = x], IsAsk(x)
  PROVE  JobsTyped' /\ job'[p] = x /\ \A c \in Clerk \ {p} : job'[c] = job[c]
<1>1. /\ job' = [c \in Clerk |-> job'[c]] /\ job'[p] = x
      /\ \A c \in Clerk \ {p} : job'[c] = job[c]
  BY OneMoves DEF JobsTyped
<1>2. ASSUME NEW c \in Clerk
      PROVE  IsAsk(job'[c])
  BY <1>1 DEF JobsTyped
<1> QED
  BY <1>1, <1>2 DEF JobsTyped

(* A request under way has its fields.                                      *)
LEMMA AtWork ==
  ASSUME JobsTyped, NEW p \in Clerk, NEW step, Step(p, step)
  PROVE  /\ IsJob(job[p]) /\ job[p].op # "none" /\ job[p].at = step /\ job[p] # Free
         /\ (step \notin Mailing => job[p].token = 0)
BY DEF JobsTyped, IsAsk, Step, Free

(* A request that ends, none of the invites its own any more.               *)
LEMMA Ends ==
  ASSUME JobsTyped, NEW p \in Clerk, End(p)
  PROVE  JobsTyped' /\ \A c \in Clerk \ {p} : job'[c] = job[c]
<1>1. job' = [job EXCEPT ![p] = Free] /\ IsAsk(Free)
  BY DEF End, IsAsk
<1> QED
  BY <1>1, JobStep

(* A request that has nothing to mail takes a step: invites only close.      *)
LEMMA Aside ==
  ASSUME LinksOnTheirWay, NEW p, \A c \in Clerk \ {p} : job'[c] = job[c], UNCHANGED <<mailed, stuck>>,
         p \in Clerk => job[p] = Free \/ job[p].at \notin Mailing,
         DOMAIN invites' = DOMAIN invites, \A k \in DOMAIN invites : Follows(invites[k], invites'[k])
  PROVE  LinksOnTheirWay'
<1>1. ASSUME NEW i \in DOMAIN invites', Pending(i)'
      PROVE  /\ i \in DOMAIN invites /\ Pending(i) /\ invites'[i].token = invites[i].token
             /\ p \in Clerk => ~Bears(job[p], i, invites[i])
  BY <1>1 DEF Follows, Pending, Bears, Mailing
<1> QED
  BY <1>1, OthersCarryOn

(* The same, the invites left alone.                                        *)
LEMMA AsideAlone ==
  ASSUME LinksOnTheirWay, RowsTyped, NEW p, \A c \in Clerk \ {p} : job'[c] = job[c],
         UNCHANGED <<mailed, stuck, invites>>, p \in Clerk => job[p] = Free \/ job[p].at \notin Mailing
  PROVE  LinksOnTheirWay'
<1>1. \A k \in DOMAIN invites : Follows(invites[k], invites'[k])
  BY FollowsItself
<1> QED
  BY <1>1, Aside

LEMMA LinksStep ==
  ASSUME RowsTyped, JobsTyped, LinksOnTheirWay, [MembershipNext]_memberVars
  PROVE  JobsTyped' /\ LinksOnTheirWay'
<1>1. ASSUME NEW p \in Clerk, NEW ask \in Asked, Ask(p, ask)
      PROVE  JobsTyped' /\ LinksOnTheirWay'
  <2> DEFINE x == [op |-> ask.op, ask |-> ask, may |-> {}, row |-> 0, token |-> 0, seen |-> {},
                   at |-> IF ask.op = "accept" THEN "look" ELSE "guard"]
  <2>1. ask.op # "none"
    BY DEF Asked
  <2>2. IsAsk(x)
    BY <2>1 DEF IsAsk, IsJob, Mailing
  <2>3. job' = [job EXCEPT ![p] = x] /\ job[p] = Free /\ UNCHANGED <<mailed, stuck, invites>>
    BY <1>1 DEF Ask
  <2> HIDE DEF x
  <2>4. JobsTyped' /\ \A c \in Clerk \ {p} : job'[c] = job[c]
    BY <2>2, <2>3, JobStep
  <2> QED
    BY <2>3, <2>4, AsideAlone
<1>2. ASSUME NEW p \in Clerk, Guard(p)
      PROVE  JobsTyped' /\ LinksOnTheirWay'
  <2> Step(p, "guard")
    BY <1>2 DEF Guard
  <2>1. IsJob(job[p]) /\ job[p].op # "none" /\ job[p].at = "guard" /\ job[p].token = 0
    BY AtWork DEF Mailing
  <2>2. UNCHANGED <<mailed, stuck, invites>>
    BY <1>2 DEF Guard, Reads
  <2>3. JobsTyped' /\ \A c \in Clerk \ {p} : job'[c] = job[c]
    <3>1. CASE End(p)
      BY <3>1, Ends
    <3>2. CASE ~End(p)
      <4>1. PICK may, step : job' = [job EXCEPT ![p].may = may, ![p].at = step] /\ step \in {"write", "look"}
        BY <1>2, <3>2 DEF Guard
      <4>2. job' = [job EXCEPT ![p] = [job[p] EXCEPT !.may = may, !.at = step]]
        BY <4>1, TwoFields DEF JobsTyped
      <4>3. IsAsk([job[p] EXCEPT !.may = may, !.at = step])
        <5>1. [job[p] EXCEPT !.may = may, !.at = step] = With(job[p], may, job[p].row, job[p].token, job[p].seen, step)
          BY <2>1, FieldsMayAt
        <5> QED
          BY <2>1, <4>1, <5>1, Noted DEF Mailing
      <4> QED
        BY <4>2, <4>3, JobStep
    <3> QED
      BY <3>1, <3>2
  <2> QED
    BY <2>1, <2>2, <2>3, AsideAlone DEF Mailing
<1>3. ASSUME NEW p \in Clerk, Fail(p)
      PROVE  JobsTyped' /\ LinksOnTheirWay'
  <2>1. JobsTyped' /\ \A c \in Clerk \ {p} : job'[c] = job[c]
    BY <1>3, Ends DEF Fail
  <2>2. /\ UNCHANGED <<mailed, invites>>
        /\ stuck' = IF job[p].at \in Mailing THEN stuck \cup {job[p].row} ELSE stuck
    BY <1>3 DEF Fail, Mailing
  <2>3. ASSUME NEW i \in DOMAIN invites', Pending(i)', i \notin stuck'
        PROVE  i \in DOMAIN invites /\ Pending(i) /\ ~Bears(job[p], i, invites[i])
    BY <2>2, <2>3 DEF Pending, Bears, Mailing
  <2>4. stuck \subseteq stuck'
    BY <2>2
  <2> QED
    BY <2>1, <2>2, <2>3, <2>4, OthersCarryOn
<1>4. ASSUME NEW p \in Clerk, Look(p)
      PROVE  JobsTyped' /\ LinksOnTheirWay'
  <2>1. IsJob(job[p]) /\ job[p].op # "none" /\ job[p].at = "look" /\ job[p].token = 0
    BY <1>4, AtWork DEF Look, Mailing
  <2>2. UNCHANGED <<mailed, stuck, invites>>
    BY <1>4 DEF Look, Reads
  <2>3. JobsTyped' /\ \A c \in Clerk \ {p} : job'[c] = job[c]
    <3>1. CASE End(p)
      BY <3>1, Ends
    <3>2. CASE ~End(p)
      <4>1. PICK row, step : job' = [job EXCEPT ![p].row = row, ![p].at = step] /\ step \in {"known", "write"}
        BY <1>4, <3>2 DEF Look
      <4>2. job' = [job EXCEPT ![p] = [job[p] EXCEPT !.row = row, !.at = step]]
        BY <4>1, TwoFields DEF JobsTyped
      <4>3. IsAsk([job[p] EXCEPT !.row = row, !.at = step])
        <5>1. [job[p] EXCEPT !.row = row, !.at = step] = With(job[p], job[p].may, row, job[p].token, job[p].seen, step)
          BY <2>1, FieldsRowAt
        <5> QED
          BY <2>1, <4>1, <5>1, Noted DEF Mailing
      <4> QED
        BY <4>2, <4>3, JobStep
    <3> QED
      BY <3>1, <3>2
  <2> QED
    BY <2>1, <2>2, <2>3, AsideAlone DEF Mailing
<1>5. ASSUME NEW p \in Clerk, Known(p)
      PROVE  JobsTyped' /\ LinksOnTheirWay'
  <2>1. IsJob(job[p]) /\ job[p].op # "none" /\ job[p].at = "known" /\ job[p].token = 0
    BY <1>5, AtWork DEF Known, Mailing
  <2>2. UNCHANGED <<mailed, stuck, invites>>
    BY <1>5 DEF Known, Reads
  <2>3. JobsTyped' /\ \A c \in Clerk \ {p} : job'[c] = job[c]
    <3>1. CASE End(p)
      BY <3>1, Ends
    <3>2. CASE ~End(p)
      <4>1. job' = [job EXCEPT ![p] = [job[p] EXCEPT !.at = "revoke"]]
        BY <1>5, <3>2 DEF Known, Onward
      <4>2. IsAsk([job[p] EXCEPT !.at = "revoke"])
        <5>1. [job[p] EXCEPT !.at = "revoke"] = With(job[p], job[p].may, job[p].row, job[p].token, job[p].seen, "revoke")
          BY <2>1, FieldAt
        <5> QED
          BY <2>1, <5>1, Noted DEF Mailing
      <4> QED
        BY <4>1, <4>2, JobStep
    <3> QED
      BY <3>1, <3>2
  <2> QED
    BY <2>1, <2>2, <2>3, AsideAlone DEF Mailing
<1>6. ASSUME NEW p \in Clerk, Revoking(p)
      PROVE  JobsTyped' /\ LinksOnTheirWay'
  <2>1. IsJob(job[p]) /\ job[p].op # "none" /\ job[p].at = "revoke" /\ job[p].token = 0
    BY <1>6, AtWork DEF Revoking, Mailing
  <2>2. UNCHANGED <<mailed, stuck, invites>>
    BY <1>6 DEF Revoking, Reads
  <2>3. PICK seen : job' = [job EXCEPT ![p].at = "write", ![p].seen = seen]
    BY <1>6 DEF Revoking
  <2>4. job' = [job EXCEPT ![p] = [job[p] EXCEPT !.at = "write", !.seen = seen]]
    BY <2>3, TwoFields DEF JobsTyped
  <2>5. IsAsk([job[p] EXCEPT !.at = "write", !.seen = seen])
    <3>1. [job[p] EXCEPT !.at = "write", !.seen = seen] = With(job[p], job[p].may, job[p].row, job[p].token, seen, "write")
      BY <2>1, FieldsAtSeen
    <3> QED
      BY <2>1, <3>1, Noted DEF Mailing
  <2>6. JobsTyped' /\ \A c \in Clerk \ {p} : job'[c] = job[c]
    BY <2>4, <2>5, JobStep
  <2> QED
    BY <2>1, <2>2, <2>6, AsideAlone DEF Mailing
<1>7. ASSUME NEW p \in Clerk, CreateInvite(p)
      PROVE  JobsTyped' /\ LinksOnTheirWay'
  <2> DEFINE i == Cardinality(DOMAIN invites) + 1
  <2>1. IsJob(job[p]) /\ job[p].op # "none" /\ job[p].at = "write" /\ job[p].token = 0
    BY <1>7, AtWork DEF CreateInvite, Mailing
  <2>2. UNCHANGED <<mailed, stuck>>
    BY <1>7 DEF CreateInvite
  <2>3. CASE q(p).role \notin DOMAIN roles
    <3>1. End(p) /\ UNCHANGED invites
      BY <1>7, <2>3 DEF CreateInvite
    <3> QED
      BY <2>1, <2>2, <3>1, Ends, AsideAlone DEF Mailing
  <2>4. CASE q(p).role \in DOMAIN roles
    <3>1. /\ job' = [job EXCEPT ![p].at = "mail", ![p].row = i]
          /\ invites' = [k \in DOMAIN invites \cup {i} |->
               CASE k = i -> [to |-> q(p).to, role |-> q(p).role, status |-> "PENDING", token |-> 0, expired |-> FALSE]
                 [] k # i /\ k \in job[p].seen /\ Pending(k) -> [invites[k] EXCEPT !.status = "REVOKED"]
                 [] OTHER -> invites[k]]
      BY <1>7, <2>4 DEF CreateInvite
    <3> HIDE DEF i
    <3>2. /\ DOMAIN invites' = DOMAIN invites \cup {i} /\ invites'[i].token = 0
          /\ \A k \in DOMAIN invites : k # i => Follows(invites[k], invites'[k])
      BY <3>1, OneMade
    <3>3. job' = [job EXCEPT ![p] = [job[p] EXCEPT !.at = "mail", !.row = i]]
      BY <3>1, TwoFields DEF JobsTyped
    <3> PICK x : x = [job[p] EXCEPT !.at = "mail", !.row = i]
      OBVIOUS
    <3>0. x = With(job[p], job[p].may, i, job[p].token, job[p].seen, "mail")
      <4>1. [job[p] EXCEPT !.at = "mail", !.row = i] = With(job[p], job[p].may, i, job[p].token, job[p].seen, "mail")
        BY <2>1, FieldsAtRow
      <4> QED
        BY <4>1
    <3>4. IsAsk(x) /\ x.at = "mail" /\ x.row = i /\ x.token = 0 /\ x # Free
      BY <2>1, <3>0, Noted DEF Mailing
    <3>5. JobsTyped' /\ job'[p] = x /\ \A c \in Clerk \ {p} : job'[c] = job[c]
      BY <3>3, <3>4, JobStep
    <3>6. Bears(job'[p], i, invites'[i])
      BY <3>2, <3>4, <3>5 DEF Bears
    <3>7. ASSUME NEW k \in DOMAIN invites', Pending(k)', k # i
          PROVE  /\ k \in DOMAIN invites /\ Pending(k) /\ invites'[k].token = invites[k].token
                 /\ ~Bears(job[p], k, invites[k])
      BY <2>1, <3>2, <3>7 DEF Follows, Pending, Bears
    <3> QED
      BY <2>2, <3>5, <3>6, <3>7, OthersCarryOn
  <2> QED
    BY <2>3, <2>4
<1>8. ASSUME NEW p \in Clerk, Replace(p)
      PROVE  JobsTyped' /\ LinksOnTheirWay'
  <2> DEFINE i == job[p].row
             t == invites[i].token + 1
  <2>1. IsJob(job[p]) /\ job[p].op # "none" /\ job[p].at = "write" /\ job[p].token = 0
    BY <1>8, AtWork DEF Replace, Mailing
  <2>2. UNCHANGED <<mailed, stuck>>
    BY <1>8 DEF Replace
  <2>3. CASE invites[i].status = "GONE"
    <3>1. End(p) /\ UNCHANGED invites
      BY <1>8, <2>3 DEF Replace
    <3> QED
      BY <2>1, <2>2, <3>1, Ends, AsideAlone DEF Mailing
  <2>4. CASE invites[i].status # "GONE"
    <3>1. /\ job' = [job EXCEPT ![p].at = "mail", ![p].token = t]
          /\ invites' = [invites EXCEPT ![i].token = t, ![i].expired = FALSE]
      BY <1>8, <2>4 DEF Replace
    <3> HIDE DEF t
    <3> PICK x : x = [job[p] EXCEPT !.at = "mail", !.token = t]
      OBVIOUS
    <3>0. x = With(job[p], job[p].may, job[p].row, t, job[p].seen, "mail")
      <4>1. [job[p] EXCEPT !.at = "mail", !.token = t] = With(job[p], job[p].may, job[p].row, t, job[p].seen, "mail")
        BY <2>1, FieldsAtToken
      <4> QED
        BY <4>1
    <3>2. /\ DOMAIN invites' = DOMAIN invites
          /\ \A k \in DOMAIN invites : /\ invites'[k].status = invites[k].status
                                       /\ invites'[k].token = IF k = i THEN t ELSE invites[k].token
      BY <3>1, OneReplaced
    <3>3. job' = [job EXCEPT ![p] = x]
      BY <3>1, TwoFields DEF JobsTyped
    <3>4. IsAsk(x) /\ x.at = "mail" /\ x.row = i /\ x.token = t /\ x # Free
      BY <2>1, <3>0, Noted DEF Mailing
    <3>5. JobsTyped' /\ job'[p] = x /\ \A c \in Clerk \ {p} : job'[c] = job[c]
      BY <3>3, <3>4, JobStep
    <3>6. i \in DOMAIN invites => Bears(job'[p], i, invites'[i])
      BY <3>2, <3>4, <3>5 DEF Bears
    <3>7. ASSUME NEW k \in DOMAIN invites', Pending(k)', k # i
          PROVE  /\ k \in DOMAIN invites /\ Pending(k) /\ invites'[k].token = invites[k].token
                 /\ ~Bears(job[p], k, invites[k])
      BY <3>2, <3>7 DEF Pending, Bears
    <3> QED
      BY <2>2, <3>2, <3>5, <3>6, <3>7, OthersCarryOn
  <2> QED
    BY <2>3, <2>4
<1>9. ASSUME NEW p \in Clerk, Mail(p)
      PROVE  JobsTyped' /\ LinksOnTheirWay'
  <2> DEFINE i == job[p].row
  <2>1. IsJob(job[p]) /\ job[p].op # "none" /\ job[p].at = "mail"
    BY <1>9, AtWork DEF Mail
  <2>2. UNCHANGED invites
    BY <1>9 DEF Mail
  <2>3. CASE mailed' = mailed \cup {<<i, job[p].token>>} /\ End(p) /\ UNCHANGED stuck
    <3>1. JobsTyped' /\ \A c \in Clerk \ {p} : job'[c] = job[c]
      BY <2>3, Ends
    <3>2. ASSUME NEW k \in DOMAIN invites', Pending(k)', <<k, invites'[k].token>> \notin mailed'
          PROVE  Pending(k) /\ ~Bears(job[p], k, invites[k])
      BY <2>1, <2>2, <2>3, <3>2 DEF Pending, Bears
    <3> QED
      BY <2>2, <2>3, <3>1, <3>2, OthersCarryOn
  <2>4. CASE Onward(p, "undo") /\ UNCHANGED <<mailed, stuck>>
    <3> PICK x : x = [job[p] EXCEPT !.at = "undo"]
      OBVIOUS
    <3>0. x = With(job[p], job[p].may, job[p].row, job[p].token, job[p].seen, "undo")
      <4>1. [job[p] EXCEPT !.at = "undo"] = With(job[p], job[p].may, job[p].row, job[p].token, job[p].seen, "undo")
        BY <2>1, FieldAt
      <4> QED
        BY <4>1
    <3>1. job' = [job EXCEPT ![p] = x]
      BY <2>4 DEF Onward
    <3>2. IsAsk(x) /\ x.at = "undo" /\ x.row = i /\ x # Free
      BY <2>1, <3>0, Noted DEF Mailing
    <3>3. JobsTyped' /\ job'[p] = x /\ \A c \in Clerk \ {p} : job'[c] = job[c]
      BY <3>1, <3>2, JobStep
    <3>4. Bears(job'[p], i, invites'[i])
      BY <3>2, <3>3 DEF Bears
    <3>5. ASSUME NEW k \in DOMAIN invites', Pending(k)', k # i
          PROVE  Pending(k) /\ ~Bears(job[p], k, invites[k])
      BY <2>2, <3>5 DEF Pending, Bears
    <3> QED
      BY <2>2, <2>4, <3>3, <3>4, <3>5, OthersCarryOn
  <2>5. CASE End(p) /\ stuck' = stuck \cup {i} /\ UNCHANGED mailed
    <3>1. JobsTyped' /\ \A c \in Clerk \ {p} : job'[c] = job[c]
      BY <2>5, Ends
    <3>2. ASSUME NEW k \in DOMAIN invites', Pending(k)', k \notin stuck'
          PROVE  Pending(k) /\ ~Bears(job[p], k, invites[k])
      BY <2>2, <2>5, <3>2 DEF Pending, Bears
    <3> QED
      BY <2>2, <2>5, <3>1, <3>2, OthersCarryOn
  <2> QED
    BY <1>9, <2>3, <2>4, <2>5 DEF Mail
<1>10. ASSUME NEW p \in Clerk, Undo(p)
       PROVE  JobsTyped' /\ LinksOnTheirWay'
  <2>1. JobsTyped' /\ \A c \in Clerk \ {p} : job'[c] = job[c]
    BY <1>10, Ends DEF Undo
  <2>2. /\ DOMAIN invites' = DOMAIN invites
        /\ \A k \in DOMAIN invites : Follows(invites[k], invites'[k]) /\ (k = job[p].row => ~Pending(k)')
    BY <1>10, OneClosed DEF Undo
  <2>3. UNCHANGED <<mailed, stuck>>
    BY <1>10 DEF Undo
  <2>4. ASSUME NEW k \in DOMAIN invites', Pending(k)'
        PROVE  /\ k \in DOMAIN invites /\ Pending(k) /\ invites'[k].token = invites[k].token
               /\ ~Bears(job[p], k, invites[k])
    BY <2>2, <2>4 DEF Follows, Pending, Bears
  <2> QED
    BY <2>1, <2>3, <2>4, OthersCarryOn
<1>11. ASSUME NEW p \in Clerk, Revoke(p) \/ Accept(p) \/ DeleteRole(p)
       PROVE  JobsTyped' /\ LinksOnTheirWay'
  <2>1. JobsTyped' /\ \A c \in Clerk \ {p} : job'[c] = job[c]
    BY <1>11, Ends DEF Revoke, Accept, DeleteRole
  <2>2. UNCHANGED <<mailed, stuck>> /\ Step(p, "write")
    BY <1>11 DEF Revoke, Accept, DeleteRole
  <2>3. job[p].at \notin Mailing
    BY <2>2 DEF Step, Mailing
  <2>4. CASE UNCHANGED invites
    BY <2>1, <2>2, <2>3, <2>4, AsideAlone
  <2>5. CASE ~UNCHANGED invites
    <3>1. CASE Revoke(p)
      <4>1. invites' = [invites EXCEPT ![q(p).invite].status = "REVOKED"]
        BY <2>5, <3>1 DEF Revoke
      <4> QED
        BY <2>1, <2>2, <2>3, <4>1, OneClosed, Aside
    <3>2. CASE Accept(p)
      <4>1. invites' = [invites EXCEPT ![job[p].row].status = "ACCEPTED"]
        BY <2>5, <3>2 DEF Accept
      <4> QED
        BY <2>1, <2>2, <2>3, <4>1, OneClosed, Aside
    <3>3. CASE DeleteRole(p)
      <4>1. invites' = [i \in DOMAIN invites |-> IF invites[i].role = q(p).role
                          THEN [invites[i] EXCEPT !.status = "GONE"] ELSE invites[i]]
        BY <2>5, <3>3 DEF DeleteRole
      <4> QED
        BY <2>1, <2>2, <2>3, <4>1, RoleGone, Aside
    <3> QED
      BY <1>11, <3>1, <3>2, <3>3
  <2> QED
    BY <2>4, <2>5
<1>12. ASSUME NEW p \in Clerk, CreateRole(p) \/ EditRole(p) \/ Assign(p) \/ RemoveMember(p)
       PROVE  JobsTyped' /\ LinksOnTheirWay'
  <2>1. JobsTyped' /\ \A c \in Clerk \ {p} : job'[c] = job[c]
    BY <1>12, Ends DEF CreateRole, EditRole, Assign, RemoveMember
  <2>2. UNCHANGED <<mailed, stuck, invites>> /\ Step(p, "write")
    BY <1>12 DEF CreateRole, EditRole, Assign, RemoveMember
  <2>3. job[p].at \notin Mailing
    BY <2>2 DEF Step, Mailing
  <2> QED
    BY <2>1, <2>2, <2>3, AsideAlone
<1>13. ASSUME NEW i \in DOMAIN invites, Lapse(i)
       PROVE  JobsTyped' /\ LinksOnTheirWay'
  <2>1. UNCHANGED <<mailed, stuck, job>> /\ invites' = [invites EXCEPT ![i].expired = TRUE]
    BY <1>13 DEF Lapse
  <2>2. PICK p : p \notin Clerk
    BY NoSetContainsEverything
  <2>3. LinksOnTheirWay'
    BY <2>1, <2>2, OneLapses, Aside
  <2> QED
    BY <2>1, <2>3 DEF JobsTyped
<1>14. ASSUME UNCHANGED memberVars
       PROVE  JobsTyped' /\ LinksOnTheirWay'
  BY <1>14 DEF memberVars, JobsTyped, LinksOnTheirWay, Pending
<1> QED
  BY <1>1, <1>2, <1>3, <1>4, <1>5, <1>6, <1>7, <1>8, <1>9, <1>10, <1>11, <1>12, <1>13, <1>14
     DEF MembershipNext, ClerkStep

(* A pending invite's link reached its recipient, or a request is at work on  *)
(* it: createInvite and resendInvite of inviteService.js write the row before  *)
(* they mail it, and take back what they made when the mail is refused.       *)
THEOREM LinksTheorem == MembershipSpec => []LinksArrive
<1>1. MembershipInit => RowsTyped /\ RolesStand /\ JobsTyped /\ LinksOnTheirWay
  <2> SUFFICES ASSUME MembershipInit
               PROVE  JobsTyped /\ LinksOnTheirWay
    BY RolesInit
  <2>1. job = [p \in Clerk |-> Free]
    BY DEF MembershipInit
  <2>2. JobsTyped
    BY <2>1 DEF JobsTyped, IsAsk
  <2>3. DOMAIN invites = {1} /\ invites[1].token = 0 /\ mailed = {<<1, 0>>}
    BY DEF MembershipInit
  <2> QED
    BY <2>2, <2>3 DEF LinksOnTheirWay
<1>2. RowsTyped /\ RolesStand /\ JobsTyped /\ LinksOnTheirWay /\ [MembershipNext]_memberVars
        => (RowsTyped /\ RolesStand /\ JobsTyped /\ LinksOnTheirWay)'
  BY RolesStep, LinksStep
<1>3. LinksOnTheirWay => LinksArrive
  BY DEF LinksOnTheirWay, LinksArrive, Bears
<1> QED
  BY <1>1, <1>2, <1>3, PTL DEF MembershipSpec

=============================================================================
