--------------------------- MODULE MCRegistration ---------------------------
(***************************************************************************)
(* Instances of Registration for TLC.                                      *)
(***************************************************************************)
EXTENDS Registration, TLC

\* Every command of the module.
AllCommands == {"PASS", "NICK", "USER", "OPER", "MODE self", "QUIT"} \cup Mistakes

\* The nicknames are interchangeable; the slots are not, they are ordered.
NickSymmetry == Permutations(Nicks)

=============================================================================
