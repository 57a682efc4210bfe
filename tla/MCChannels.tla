----------------------------- MODULE MCChannels -----------------------------
(***************************************************************************)
(* Instances of Channels for TLC.                                          *)
(***************************************************************************)
EXTENDS Channels, TLC

LoginCommands == {"PASS", "NICK", "USER"}

ChannelCommands == {"JOIN", "PART", "JOIN 0", "INVITE", "MODE", "TOPIC", "KICK", "QUIT"}

\* Clients that log in, change nicknames, log in again and use channels; OPER
\* and MODE on oneself are in Registration.cfg and change nothing here.
PoliteCommands == LoginCommands \cup ChannelCommands

\* Clients that have registered and do not log in again.
CrowdCommands == {"NICK"} \cup ChannelCommands

\* The same without INVITE, in two channels; TOPIC would multiply the states.
SafeCommands == CrowdCommands \ {"INVITE", "TOPIC"}

\* Clients that overwrite their nickname.
MistakenCommands == {"NICK", "JOIN", "PART", "INVITE", "QUIT"} \cup Mistakes

\* Everybody has logged in, nobody has joined anything yet.
Registered ==
  /\ status = [u \in Users |-> "REGISTERED"]
  /\ nick \in [Users -> {<<n>> : n \in Nicks}]
  /\ NickExclusive
  /\ named = [u \in Users |-> TRUE]
  /\ serverOp = [u \in Users |-> FALSE]

RegisteredInit ==
  /\ Registered
  /\ chan = [c \in Ptrs |-> Freed]
  /\ joined = [u \in Users |-> {}]
  /\ invites = [u \in Users |-> [c \in Ptrs |-> 0]]
  /\ kick = <<>>
  /\ fault = "none"

RegisteredSpec == RegisteredInit /\ [][Next]_vars

\* Nicknames, addresses and channel names are interchangeable; the slots are
\* ordered.
CrowdSymmetry == Permutations(Nicks)
ChannelSymmetry == Permutations(Nicks) \cup Permutations(Ptrs)
SafeSymmetry == ChannelSymmetry \cup Permutations(Names)

=============================================================================
