-------------------------- MODULE MCClosuresPatch ---------------------------
(* Two editors patch the two ends of one closure at the same time.         *)
EXTENDS Closures

Ask(k, d) == [kind |-> k, id |-> CHOOSE c \in Closure : TRUE, data |-> d]
Requests ==
  { Ask("create", [startsAt |-> 0, endsAt |-> 3, scope |-> {"ids"}]),
    Ask("patch", [f \in {"startsAt"} |-> 2]),
    Ask("patch", [f \in {"endsAt"} |-> 1]) }
=============================================================================
