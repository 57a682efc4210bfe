---------------------------- MODULE Registration ----------------------------
(***************************************************************************)
(* The clients of the server and how they register: Server::_users, the    *)
(* status, nickname, username and operator flag of each User, and the      *)
(* commands PASS, NICK, USER, OPER and MODE <own nickname> with the error  *)
(* paths of PRIVMSG and OPER that store their reply as the nickname.       *)
(*                                                                         *)
(* The server is one thread that runs a command to its end before it reads *)
(* the next, so a command is one step.  A command that is refused only     *)
(* sends a reply: it is a stuttering step and has no action.               *)
(***************************************************************************)
EXTENDS Naturals, Sequences, FiniteSets

CONSTANTS
  Users,        \* client slots, numbered in the order of their sockets:
                \* Server::_users is a map by descriptor
  Nicks,        \* nicknames that isNickValid accepts
  Commands,     \* the kinds of command that clients send
  MaxMangle     \* bound: length of a nickname (see nick)

ASSUME UsersAssumption == Users \subseteq Nat /\ IsFiniteSet(Users)
ASSUME NicksAssumption == "*" \notin Nicks /\ "461" \notin Nicks
ASSUME MaxMangleAssumption == MaxMangle \in Nat \ {0}

Statuses == {"GONE", "CONNECTED", "PASSWORDACCEPTED", "NICKNAMEISOK",
             "USERNAMEISOK", "REGISTERED"}

\* The commands whose handlers write an error reply into the nickname.
Mistakes == {"PRIVMSG to nobody", "OPER without password"}

VARIABLES
  status,       \* User::_status, "GONE" when no User exists in the slot
  nick,         \* User::_nickname: <<n>> is the nickname n, <<"*">> none yet;
                \* nk \o <<r>> is the error reply about r sent to nickname nk,
                \* <<>> belongs to a slot without a User
  named,        \* User::_username and _realname have been set
  serverOp      \* User::_op

regVars == <<status, nick, named, serverOp>>

TypeOK ==
  /\ status \in [Users -> Statuses]
  /\ nick \in [Users -> Seq(Nicks \cup {"*", "461"})]
  /\ named \in [Users -> BOOLEAN]
  /\ serverOp \in [Users -> BOOLEAN]

-----------------------------------------------------------------------------

Connected == {u \in Users : status[u] # "GONE"}

Star == <<"*">>

\* The users getUserWithNickname may find, and the one it does: the first in
\* the order of the map.
Bearers(nk) == {u \in Connected : nick[u] = nk}

IsNamed(u, nk) ==
  /\ u \in Bearers(nk)
  /\ \A w \in Bearers(nk) : u <= w

NickRegistered(n) ==                    \* mutant: looks at registered users only
  \E u \in Bearers(<<n>>) : status[u] = "REGISTERED"

NickInUse(n) == Bearers(<<n>>) # {}

\* A connected client sends a command of this kind.
Sends(u, command) == command \in Commands /\ u \in Connected

-----------------------------------------------------------------------------

RegInit ==
  /\ status = [u \in Users |-> "GONE"]
  /\ nick = [u \in Users |-> <<>>]
  /\ named = [u \in Users |-> FALSE]
  /\ serverOp = [u \in Users |-> FALSE]

\* A connection is accepted: a new User.
Accept(u) ==
  /\ status[u] = "GONE"
  /\ status' = [status EXCEPT ![u] = "CONNECTED"]
  /\ nick' = [nick EXCEPT ![u] = Star]
  /\ UNCHANGED <<named, serverOp>>

\* The right password, at any time, takes the status back to this one.
Pass(u) ==
  /\ Sends(u, "PASS")
  /\ status' = [status EXCEPT ![u] = "PASSWORDACCEPTED"]
  /\ UNCHANGED <<nick, named, serverOp>>

AfterNickCreated(s) ==                \* mutant: a status no client has
  IF s = "PASSWORDACCEPTED" THEN "CREATED" ELSE s

AfterNick(s) ==
  CASE s = "PASSWORDACCEPTED" -> "NICKNAMEISOK"
    [] s = "USERNAMEISOK" -> "REGISTERED"
    [] OTHER -> s

\* A nickname somebody has, the sender included, is refused.  Before the
\* password it is dropped without a reply.
Nick(u, n) ==
  /\ Sends(u, "NICK")
  /\ ~ NickInUse(n)
  /\ status[u] # "CONNECTED"
  /\ nick' = [nick EXCEPT ![u] = <<n>>]
  /\ status' = [status EXCEPT ![u] = AfterNick(@)]
  /\ UNCHANGED <<named, serverOp>>

AfterUserRegistered(s) ==               \* mutant: does not wait for NICK
  IF s \in {"PASSWORDACCEPTED", "NICKNAMEISOK"} THEN "REGISTERED" ELSE s

AfterUser(s) ==
  CASE s = "PASSWORDACCEPTED" -> "USERNAMEISOK"
    [] s = "NICKNAMEISOK" -> "REGISTERED"
    [] OTHER -> s

UserCmd(u) ==
  /\ Sends(u, "USER")
  /\ status[u] \notin {"CONNECTED", "REGISTERED"}
  /\ named' = [named EXCEPT ![u] = TRUE]
  /\ status' = [status EXCEPT ![u] = AfterUser(@)]
  /\ UNCHANGED <<nick, serverOp>>

OperUnregistered(u) ==                  \* mutant: the guard of OPER is missing
  /\ Sends(u, "OPER")
  /\ serverOp' = [serverOp EXCEPT ![u] = TRUE]
  /\ UNCHANGED <<status, nick, named>>

\* OPER with the login and password of the build.
Oper(u) ==
  /\ Sends(u, "OPER")
  /\ status[u] = "REGISTERED"
  /\ serverOp' = [serverOp EXCEPT ![u] = TRUE]
  /\ UNCHANGED <<status, nick, named>>

\* MODE with the sender's own nickname: -o is the only letter that acts.  A
\* nickname that holds an error reply has blanks and cannot be an argument.
ModeSelf(u) ==
  /\ Sends(u, "MODE self")
  /\ status[u] = "REGISTERED"
  /\ Len(nick[u]) = 1
  /\ serverOp' = [serverOp EXCEPT ![u] = FALSE]
  /\ UNCHANGED <<status, nick, named>>

\* setNickname with an error reply about r, where sendToClient was meant.
Mangle(u, r) ==
  /\ status[u] = "REGISTERED"
  /\ Len(nick[u]) < MaxMangle
  /\ nick' = [nick EXCEPT ![u] = Append(@, r)]
  /\ UNCHANGED <<status, named, serverOp>>

PrivmsgNobody(u, n) ==
  /\ Sends(u, "PRIVMSG to nobody")
  /\ ~ NickInUse(n)
  /\ Mangle(u, n)

OperShort(u) ==
  /\ Sends(u, "OPER without password")
  /\ Mangle(u, "461")

\* QUIT, end of file, a failed read or a line too long: the User is deleted.
Disconnect(u) ==
  /\ Sends(u, "QUIT")
  /\ status' = [status EXCEPT ![u] = "GONE"]
  /\ nick' = [nick EXCEPT ![u] = <<>>]
  /\ named' = [named EXCEPT ![u] = FALSE]
  /\ serverOp' = [serverOp EXCEPT ![u] = FALSE]

\* Every step of a client that touches no channel.
Identification(u) ==
  \/ Accept(u)
  \/ Pass(u)
  \/ \E n \in Nicks : Nick(u, n)
  \/ UserCmd(u)
  \/ Oper(u)
  \/ ModeSelf(u)
  \/ \E n \in Nicks : PrivmsgNobody(u, n)
  \/ OperShort(u)

RegNext == \E u \in Users : Identification(u) \/ Disconnect(u)

RegSpec == RegInit /\ [][RegNext]_regVars

-----------------------------------------------------------------------------
(* Properties *)

\* No two clients bear the same nickname.  Two clients without a nickname are
\* both "*", and two that sent the same mistaken commands may hold the same
\* error reply: the check of NICK looks at neither.
NickExclusive ==
  \A u, v \in Connected :
    nick[u] = nick[v] => \/ u = v
                         \/ nick[u] = Star
                         \/ Len(nick[u]) > 1

\* What a status claims about a client is there, whichever way it came to the
\* status: a repeated PASS takes the status back but not the identity, and
\* operator rights outlive the status that allowed OPER.
IdentityMatchesStatus ==
  \A u \in Users :
    /\ status[u] \in {"NICKNAMEISOK", "REGISTERED"} => nick[u] # Star
    /\ status[u] \in {"USERNAMEISOK", "REGISTERED"} => named[u]
    /\ serverOp[u] => /\ status[u] \notin {"GONE", "CONNECTED"}
                      /\ nick[u] # Star
                      /\ named[u]

\* The statuses, read as what the client has given, keep the promise of Login.
Given(s) ==
  CASE s = "PASSWORDACCEPTED" -> {"PASS"}
    [] s = "NICKNAMEISOK" -> {"PASS", "NICK"}
    [] s = "USERNAMEISOK" -> {"PASS", "USER"}
    [] s = "REGISTERED" -> {"PASS", "NICK", "USER"}
    [] OTHER -> {}

L == INSTANCE Login WITH given <- [u \in Users |-> Given(status[u])],
                         op <- serverOp

LoginSpec == L!Spec

\* A nickname is a nickname: the reply errorNoSuchNick, one of the "Error
\* Messages" of MessageCodes.hpp, is for the client and not for its record.
NicksAreNames == \A u \in Connected : Len(nick[u]) = 1

\* No client makes the mistakes that overwrite its nickname.
Polite == Commands \cap Mistakes = {}

=============================================================================
