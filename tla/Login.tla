-------------------------------- MODULE Login --------------------------------
(***************************************************************************)
(* What logging in to the server promises, without nicknames, statuses or  *)
(* the order of NICK and USER: a client gives the password first, then its *)
(* two identities in either order, and only a client that has given all    *)
(* three may become a server operator.  The statuses of User.hpp and the   *)
(* handlers of PASS, NICK, USER, OPER and MODE are shown to keep this      *)
(* promise (Registration!LoginSpec).                                       *)
(***************************************************************************)

CONSTANT Users      \* the connections, one per socket

Parts == {"PASS", "NICK", "USER"}

VARIABLES
  given,            \* what each client has given of the three parts
  op                \* whether it holds server operator rights

TypeOK ==
  /\ given \in [Users -> SUBSET Parts]
  /\ op \in [Users -> BOOLEAN]

Init ==
  /\ given = [u \in Users |-> {}]
  /\ op = [u \in Users |-> FALSE]

\* The password starts a login; a client that repeats it starts again.
Authenticate(u) ==
  /\ given' = [given EXCEPT ![u] = {"PASS"}]
  /\ UNCHANGED op

Identify(u, part) ==
  /\ "PASS" \in given[u]
  /\ given' = [given EXCEPT ![u] = @ \cup {part}]
  /\ UNCHANGED op

BecomeOperator(u) ==
  /\ given[u] = Parts
  /\ op' = [op EXCEPT ![u] = TRUE]
  /\ UNCHANGED given

StepDown(u) ==
  /\ given[u] = Parts
  /\ op' = [op EXCEPT ![u] = FALSE]
  /\ UNCHANGED given

Leave(u) ==
  /\ given' = [given EXCEPT ![u] = {}]
  /\ op' = [op EXCEPT ![u] = FALSE]

Next ==
  \E u \in Users :
    \/ Authenticate(u)
    \/ \E part \in {"NICK", "USER"} : Identify(u, part)
    \/ BecomeOperator(u)
    \/ StepDown(u)
    \/ Leave(u)

Spec == Init /\ [][Next]_<<given, op>>

=============================================================================
