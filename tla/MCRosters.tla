------------------------------ MODULE MCRosters ------------------------------
(***************************************************************************)
(* An instance of Rosters for TLC.                                         *)
(***************************************************************************)
EXTENDS Rosters, TLC

\* Registered clients that may take another nickname while in no channel.
SettledCommands == {"NICK", "JOIN", "PART", "JOIN 0", "INVITE", "MODE", "TOPIC",
                    "KICK", "QUIT"}

SettledInit ==
  /\ status = [u \in Users |-> "REGISTERED"]
  /\ nick \in [Users -> {<<n>> : n \in Nicks}]
  /\ NickExclusive
  /\ named = [u \in Users |-> TRUE]
  /\ serverOp = [u \in Users |-> FALSE]
  /\ chan = [c \in Ptrs |-> Freed]
  /\ joined = [u \in Users |-> {}]
  /\ invites = [u \in Users |-> [c \in Ptrs |-> 0]]
  /\ kick = <<>>
  /\ fault = "none"
  /\ roster = [v \in Users |-> [c \in Ptrs |-> Unknown]]

SettledSpec == SettledInit /\ [][RostersNext]_rosterVars

NickSymmetry == Permutations(Nicks)

=============================================================================
