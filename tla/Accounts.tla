------------------------------ MODULE Accounts ------------------------------
(***************************************************************************)
(* One account: signing up and in (routes/auth/auth.js), the second factor   *)
(* (2fa.js), the password reset (reset.js) and the settings (settings.js),    *)
(* with the mailed codes all of them rest on (verificationCodes.js).         *)
(*                                                                         *)
(* Requests run concurrently and every await ends a step: what a request has *)
(* read into proc[p].user or proc[p].row may be stale when it acts on it.    *)
(* bcrypt is equality, on the copy that was read; a code is the number of     *)
(* its row, 0 a wrong one.  Any request may die at any step (a database      *)
(* error: the handler's catch answers 500), which also stands for a restart.  *)
(***************************************************************************)
EXTENDS Integers, FiniteSets

CONSTANTS
  Process,      \* the requests under way at a time
  Password, Ip, Email,
  TakenEmail,   \* the addresses other accounts have
  MaxAttempts,  \* MAX_CODE_ATTEMPTS
  MaxRequests,  \* how many requests are served (bound)
  MaxCodes      \* how many codes are issued (bound)

ASSUME AccountBounds == MaxAttempts \in Nat \ {0} /\ MaxRequests \in Nat /\ TakenEmail \subseteq Email

VARIABLES
  user,      \* the account's row
  codes,     \* the pending verifications
  sessions,  \* the session tokens handed out
  proc,      \* the requests under way
  served,    \* how many requests have come (bound)
  wrong,     \* how often each code was guessed wrong and the guess recorded, or about to be
  spared     \* how often a guess that was to destroy its code could not

tally == <<wrong, spared>>
accountVars == <<user, codes, sessions, proc, served, tally>>

Idle == [op |-> "none"]
CodeType == {"2fa", "reset", "change email", "verify account", "2fa-activation", "2fa-deactivation"}

\* The type of the code a request asks for or submits.
TypeOf(r) ==
  CASE r.op \in {"login", "login2fa"} -> "2fa"
    [] r.op \in {"sendReset", "verifyReset", "resetPassword"} -> "reset"
    [] r.op \in {"sendEmail", "confirmEmail"} -> "change email"
    [] r.op \in {"sendVerify", "confirmVerify"} -> "verify account"
    [] r.op \in {"sendActivate", "activate"} -> "2fa-activation"
    [] r.op \in {"sendDeactivate", "deactivate"} -> "2fa-deactivation"

Submits == {"login2fa", "verifyReset", "resetPassword", "confirmEmail", "confirmVerify",
            "activate", "deactivate"}

Issued == DOMAIN wrong
Code == Issued \cup {0}

\* What may come: its parameters, the session it carries, the code it submits.
Registers == [op : {"register"}, password : Password]
LogsIn == [op : {"login"}, password : Password, ip : Ip] \cup [op : {"login2fa"}, ip : Ip, code : Code]
AsksForReset == [op : {"sendReset"}]
Resets == [op : {"verifyReset"}, code : Code] \cup [op : {"resetPassword"}, code : Code, new : Password]
ChangesPassword == [op : {"changePassword"}, session : sessions, old : Password, new : Password]
ChangesEmail == [op : {"sendEmail"}, session : sessions, email : Email]
           \cup [op : {"confirmEmail"}, session : sessions, email : Email, code : Code]
AsksToVerify == [op : {"sendVerify"}, session : sessions]
Verifies == [op : {"confirmVerify"}, session : sessions, code : Code]
AsksToSwitch == [op : {"sendActivate", "sendDeactivate"}, session : sessions]
Switches == [op : {"activate", "deactivate"}, session : sessions, code : Code]
Leaves == [op : {"deleteAccount"}, session : sessions, password : Password]

\* The ones behind whoami.
SignedRequest == ChangesPassword \cup ChangesEmail \cup AsksToVerify \cup Verifies \cup AsksToSwitch
                 \cup Switches \cup Leaves
Request == Registers \cup LogsIn \cup AsksForReset \cup Resets \cup SignedRequest
Signed(p) == "session" \in DOMAIN proc[p].req

(***************************************************************************)
(* Steps                                                                    *)
(***************************************************************************)

At(p, step) == proc[p].op # "none" /\ proc[p].at = step
Go(p, step) == proc' = [proc EXCEPT ![p].at = step]
Done(p) == proc' = [proc EXCEPT ![p] = Idle]
me(p) == proc[p].user
r(p) == proc[p].req

\* The row the request read is still there to be updated.
Mine(p) == user.exists /\ user.id = me(p).id

\* A fresh row.
Account(id, there, two, password, email) ==
  [id |-> id, exists |-> there, password |-> password, version |-> 0, two |-> two,
   trusted |-> {}, verified |-> FALSE, email |-> email]

\* A session token: what whoami will compare, and the password it came from.
Token(id, version, password) == [id |-> id, version |-> version, password |-> password]

\* whoami honours the token.
Live(s) == user.exists /\ s.id = user.id /\ s.version = user.version

Begin(p, req) ==
  /\ proc[p] = Idle /\ served < MaxRequests
  /\ served' = served + 1
  /\ proc' = [proc EXCEPT ![p] = [op |-> req.op, req |-> req, user |-> Idle, row |-> 0,
                at |-> IF "session" \in DOMAIN req THEN "whoami" ELSE "read"]]
  /\ UNCHANGED <<user, codes, sessions, tally>>

\* A database error, or the process going down, wherever the request is: a
\* guess it had not recorded counts for nothing, a code it had used stays.  So
\* does one it had to destroy: the guess is recorded by then, and the failure of
\* the deletion is swallowed.
Die(p) ==
  /\ proc[p] # Idle /\ Done(p)
  /\ wrong' = IF proc[p].at = "record" THEN [wrong EXCEPT ![proc[p].row] = @ - 1] ELSE wrong
  /\ spared' = IF proc[p].at = "destroy" THEN [spared EXCEPT ![proc[p].row] = @ + 1] ELSE spared
  /\ UNCHANGED <<user, codes, sessions, served>>

\* whoami: the token's user, at the token's version.
Whoami(p) ==
  /\ At(p, "whoami")
  /\ IF Live(r(p).session)
     THEN proc' = [proc EXCEPT ![p].user = user,
            ![p].at = CASE proc[p].op \in {"changePassword", "deleteAccount"} -> "read"
                        [] proc[p].op \in Submits -> "find"
                        [] OTHER -> "clear"]
     ELSE Done(p)
  /\ UNCHANGED <<user, codes, sessions, served, tally>>

\* Login reads the account once and decides all on what it read.
AfterLogin(req) ==
  CASE req.password # user.password -> "refused"
    [] req.password = user.password /\ req.ip \in user.trusted -> "open"
    [] OTHER -> IF user.two THEN "clear" ELSE "trust"

\* The account as the handler reads it, and what it decides on that.
Read(p) ==
  LET op == proc[p].op
      next == CASE op = "register" -> IF user.exists THEN "refused" ELSE "insert"
                [] ~user.exists -> "refused"
                [] op = "login" -> AfterLogin(r(p))
                [] op = "sendReset" -> "clear"
                [] op \in Submits -> "find"
                [] op = "changePassword" ->
                     IF r(p).old = user.password /\ r(p).new # user.password THEN "password" ELSE "refused"
                [] op = "deleteAccount" -> IF r(p).password = user.password THEN "delete" ELSE "refused"
  IN
  /\ At(p, "read")
  /\ IF next = "refused" \/ (Signed(p) /\ ~Mine(p)) THEN Done(p)
     ELSE proc' = [proc EXCEPT ![p].user = user, ![p].at = next]
  /\ UNCHANGED <<user, codes, sessions, served, tally>>

\* register: the unique address decides the race between two of them.
Insert(p) ==
  /\ At(p, "insert") /\ Done(p)
  /\ IF user.exists THEN UNCHANGED <<user, sessions>>
     ELSE /\ user' = Account(user.id + 1, TRUE, FALSE, r(p).password, user.email)
          /\ sessions' = sessions \cup {Token(user.id + 1, 0, r(p).password)}
  /\ UNCHANGED <<codes, served, tally>>

(***************************************************************************)
(* A code is issued: pending ones of its type deleted, a fresh one created   *)
(***************************************************************************)

OfType(t) == {c \in DOMAIN codes : codes[c].type = t}
WithoutCodes(gone) == [c \in DOMAIN codes \ gone |-> codes[c]]

\* An address change deletes before it is checked, and again to issue.
Clear(p) ==
  /\ At(p, "clear") \/ At(p, "clear again")
  /\ codes' = WithoutCodes(OfType(TypeOf(r(p))))
  /\ CASE proc[p].op # "sendEmail" \/ At(p, "clear again") -> Go(p, "create")
       [] r(p).email = me(p).email \/ r(p).email \in TakenEmail -> Done(p)
       [] OTHER -> Go(p, "clear again")
  /\ UNCHANGED <<user, sessions, served, tally>>

\* The row refers to the user: a deleted account gets none.
Create(p) ==
  LET c == Cardinality(Issued) + 1
  IN
  /\ At(p, "create") /\ c <= MaxCodes
  /\ Done(p)
  /\ IF Mine(p)
     THEN /\ codes' = [k \in DOMAIN codes \cup {c} |-> IF k # c THEN codes[k] ELSE
                        [type |-> TypeOf(r(p)), attempts |-> 0, verified |-> FALSE, expired |-> FALSE,
                         pending |-> IF proc[p].op = "sendEmail" THEN r(p).email ELSE me(p).email]]
          /\ wrong' = [k \in Issued \cup {c} |-> IF k = c THEN 0 ELSE wrong[k]]
          /\ spared' = [k \in Issued \cup {c} |-> IF k = c THEN 0 ELSE spared[k]]
     ELSE UNCHANGED <<codes, tally>>
  /\ UNCHANGED <<user, sessions, served>>

Expire(c) ==
  /\ c \in DOMAIN codes /\ ~codes[c].expired
  /\ codes' = [codes EXCEPT ![c].expired = TRUE]
  /\ UNCHANGED <<user, sessions, proc, served, tally>>

(***************************************************************************)
(* A code is submitted                                                      *)
(***************************************************************************)

Findable(p) ==
  {c \in OfType(TypeOf(r(p))) : /\ ~codes[c].expired
                                /\ proc[p].op = "resetPassword" => codes[c].verified}

AfterCode(op) ==
  CASE op = "login2fa" -> "consume" [] op = "verifyReset" -> "mark" [] op = "resetPassword" -> "password"
    [] op = "confirmEmail" -> "email" [] OTHER -> "switch"

\* Some pending code of the type is found, and compared with the submitted one
\* unless it expires meanwhile: then it is deleted.
Find(p) ==
  /\ At(p, "find")
  /\ \/ Findable(p) = {} /\ Done(p) /\ UNCHANGED <<codes, wrong>>
     \/ \E c \in Findable(p) : codes' = WithoutCodes({c}) /\ Done(p) /\ UNCHANGED wrong
     \/ \E c \in Findable(p) : /\ UNCHANGED codes
          /\ IF proc[p].op = "confirmEmail" /\ codes[c].pending # r(p).email
             THEN Done(p) /\ UNCHANGED wrong
             ELSE /\ proc' = [proc EXCEPT ![p].row = c,
                                ![p].at = IF r(p).code = c THEN AfterCode(proc[p].op) ELSE "record"]
                  /\ wrong' = IF r(p).code = c THEN wrong ELSE [wrong EXCEPT ![c] = @ + 1]
  /\ UNCHANGED <<user, sessions, served, spared>>

\* (mutant) a code is destroyed by the guess after the last one allowed.
RecordLate(p) ==
  LET c == proc[p].row
  IN
  /\ At(p, "record")
  /\ IF c \notin DOMAIN codes THEN Done(p) /\ UNCHANGED codes
     ELSE /\ codes' = [codes EXCEPT ![c].attempts = @ + 1]
          /\ IF codes[c].attempts >= MaxAttempts THEN Go(p, "destroy") ELSE Done(p)
  /\ UNCHANGED <<user, sessions, served, tally>>

\* recordFailedAttempt: counted, and at the cap destroyed by a second step.
Record(p) ==
  LET c == proc[p].row
  IN
  /\ At(p, "record")
  /\ IF c \notin DOMAIN codes THEN Done(p) /\ UNCHANGED codes
     ELSE /\ codes' = [codes EXCEPT ![c].attempts = @ + 1]
          /\ IF codes[c].attempts + 1 >= MaxAttempts THEN Go(p, "destroy") ELSE Done(p)
  /\ UNCHANGED <<user, sessions, served, tally>>

Destroy(p) ==
  /\ At(p, "destroy") /\ Done(p)
  /\ codes' = WithoutCodes({proc[p].row})
  /\ UNCHANGED <<user, sessions, served, tally>>

\* The used code goes: a login or a reset deletes all of its type, the others
\* the one they used.
Used(p) == IF proc[p].op \in {"login2fa", "resetPassword"} THEN OfType(TypeOf(r(p))) ELSE {proc[p].row}

Consume(p) ==
  /\ At(p, "consume")
  /\ codes' = WithoutCodes(Used(p))
  /\ IF proc[p].op = "login2fa"
     THEN Go(p, IF r(p).ip \in me(p).trusted THEN "open" ELSE "trust")
     ELSE Done(p)
  /\ UNCHANGED <<user, sessions, served, tally>>

(***************************************************************************)
(* What a request does to the account                                       *)
(***************************************************************************)

\* The address of a login is pushed on the trusted ones.
Trust(p) ==
  /\ At(p, "trust")
  /\ IF Mine(p) THEN user' = [user EXCEPT !.trusted = @ \cup {r(p).ip}] /\ Go(p, "open")
     ELSE UNCHANGED user /\ Done(p)
  /\ UNCHANGED <<codes, sessions, served, tally>>

\* A session is signed for the version that was read.
OpenSession(p) ==
  /\ At(p, "open") /\ Done(p)
  /\ sessions' = sessions \cup {Token(me(p).id, me(p).version, me(p).password)}
  /\ UNCHANGED <<user, codes, served, tally>>

\* A reset code proves itself before it may be used; it also verifies the account.
Mark(p) ==
  LET c == proc[p].row
  IN
  /\ At(p, "mark")
  /\ IF c \in DOMAIN codes
     THEN /\ codes' = [codes EXCEPT ![c].verified = TRUE]
          /\ IF me(p).verified THEN Done(p) ELSE Go(p, "switch")
     ELSE Done(p) /\ UNCHANGED codes
  /\ UNCHANGED <<user, sessions, served, tally>>

\* (mutant) the sessions issued before stay.
WithPasswordOnly(new) == [user EXCEPT !.password = new, !.trusted = {}]

\* A new password ends the sessions issued before it and trusts no address.
\* A reset goes on to delete its codes; a change signs a session of its own.
WithPassword(new) == [user EXCEPT !.password = new, !.version = @ + 1, !.trusted = {}]

SetPassword(p) ==
  /\ At(p, "password")
  /\ IF ~Mine(p) THEN Done(p) /\ UNCHANGED <<user, sessions>>
     ELSE /\ user' = WithPassword(r(p).new)
          /\ IF proc[p].op = "resetPassword" THEN Go(p, "consume") /\ UNCHANGED sessions
             ELSE /\ Done(p)
                  /\ sessions' = sessions \cup {Token(user.id, user'.version, r(p).new)}
  /\ UNCHANGED <<codes, served, tally>>

\* The new address, unless another account has it.
SetEmail(p) ==
  /\ At(p, "email")
  /\ IF Mine(p) /\ r(p).email \notin TakenEmail
     THEN user' = [user EXCEPT !.email = r(p).email] /\ Go(p, "consume")
     ELSE UNCHANGED user /\ Done(p)
  /\ UNCHANGED <<codes, sessions, served, tally>>

\* The switches of the account; the second factor starts with no trusted address.
Switch(p) ==
  /\ At(p, "switch")
  /\ IF ~Mine(p) THEN Done(p) /\ UNCHANGED user
     ELSE /\ user' = CASE proc[p].op = "activate" -> [user EXCEPT !.two = TRUE, !.trusted = {}]
                       [] proc[p].op = "deactivate" -> [user EXCEPT !.two = FALSE]
                       [] OTHER -> [user EXCEPT !.verified = TRUE]
          /\ IF proc[p].op = "verifyReset" THEN Done(p) ELSE Go(p, "consume")
  /\ UNCHANGED <<codes, sessions, served, tally>>

\* The account goes, and its codes with it.
DeleteAccount(p) ==
  /\ At(p, "delete") /\ Done(p)
  /\ IF Mine(p) THEN user' = [user EXCEPT !.exists = FALSE] /\ codes' = WithoutCodes(DOMAIN codes)
     ELSE UNCHANGED <<user, codes>>
  /\ UNCHANGED <<sessions, served, tally>>

(***************************************************************************)
(* No account yet, or one in use, with or without the second factor, one     *)
(* session open and a code pending that was guessed wrong all but once       *)
(***************************************************************************)

AccountsInit ==
  /\ \E two \in BOOLEAN, password \in Password, email \in Email \ TakenEmail :
       \/ /\ user = Account(0, FALSE, FALSE, password, email) /\ sessions = {}
          /\ codes = <<>> /\ wrong = <<>> /\ spared = <<>>
       \/ /\ user = Account(1, TRUE, two, password, email)
          /\ sessions = {Token(1, 0, password)}
          /\ \E t \in CodeType, v \in BOOLEAN, e \in Email :
               /\ t # "reset" => ~v
               /\ t # "change email" => e = email
               /\ codes = [c \in {1} |-> [type |-> t, attempts |-> MaxAttempts - 1, verified |-> v,
                                          expired |-> FALSE, pending |-> e]]
          /\ wrong = [c \in {1} |-> MaxAttempts - 1] /\ spared = [c \in {1} |-> 0]
  /\ proc = [p \in Process |-> Idle] /\ served = 0

AccountStep(p) ==
  \/ \E req \in Request : Begin(p, req)
  \/ Die(p) \/ Whoami(p) \/ Read(p) \/ Insert(p) \/ Clear(p) \/ Create(p) \/ Find(p)
  \/ Record(p) \/ Destroy(p) \/ Consume(p) \/ Trust(p) \/ OpenSession(p) \/ Mark(p)
  \/ SetPassword(p) \/ SetEmail(p) \/ Switch(p) \/ DeleteAccount(p)

AccountsNext == (\E p \in Process : AccountStep(p)) \/ \E c \in DOMAIN codes : Expire(c)

AccountsSpec == AccountsInit /\ [][AccountsNext]_accountVars

(***************************************************************************)
(* Properties                                                               *)
(***************************************************************************)

\* The guess that takes a code to the cap destroys it, and so does every later
\* one, although finding the code, comparing, counting and deleting are four
\* awaits, and two requests may be between any of them.  A code that is still
\* there was guessed wrong fewer times than the cap allows, but for the guesses
\* that are just about to be recorded or to destroy it, and for those whose
\* deletion failed: the handler swallows that failure and says the code is gone.
Recording(c) == {p \in Process : (At(p, "record") \/ At(p, "destroy")) /\ proc[p].row = c}

GuessesCapped ==
  \A c \in DOMAIN codes : wrong[c] - Cardinality(Recording(c)) - spared[c] < MaxAttempts

\* Once the password has changed, no session of an older one is honoured, not
\* even one whose login was under way meanwhile: the token bears the version
\* that was read with the password.
SessionsFollowPassword == \A s \in sessions : Live(s) => s.password = user.password

=============================================================================
