------------------------------- MODULE Rosters -------------------------------
(***************************************************************************)
(* What the members of a channel are told of each other: the messages that *)
(* Channel::addUser, User::leaveChannel, User::leaveAllChannels and MODE   *)
(* send to the channel, added to the steps of Channels.  A client that     *)
(* shows who is in a channel knows it from these messages alone.           *)
(*                                                                         *)
(* roster[v][c] is what these messages tell v about channel c, and what v   *)
(* has asked for itself: JOIN 0 and QUIT are answered to the others only.  *)
(* NICK tells nobody but its sender, so this is about clients that send it *)
(* only where there is nobody to tell: while they are in no channel.       *)
(***************************************************************************)
EXTENDS Channels

VARIABLE roster

rosterVars == <<vars, roster>>

\* The nicknames a client believes to be in a channel, and to be operators.
Roster == [names : SUBSET Nicks, ops : SUBSET Nicks]

Unknown == [names |-> {}, ops |-> {}]

RostersTypeOK == ChannelsTypeOK /\ roster \in [Users -> [Ptrs -> Roster]]

-----------------------------------------------------------------------------
(* Messages *)

Name(u) == nick[u][1]

\* sendToChannel(NULL, ...)
Everybody(ch) == Members(ch)

\* JOIN, heard by those who are in channel c already.
WithJoined(r, u) == [r EXCEPT !.names = @ \cup {Name(u)}]

\* PART, KICK or QUIT of u, heard by another and by u itself.
WithLeft(v, r, u) ==
  IF v = u THEN Unknown
           ELSE [names |-> r.names \ {Name(u)}, ops |-> r.ops \ {Name(u)}]

NamesReplyPlain(ch) ==                           \* mutant: no @
  [names |-> {Name(v) : v \in Members(ch)}, ops |-> {}]

\* displayUsers: the reply that lists everybody, operators with an @.
NamesReply(ch) ==
  [names |-> {Name(v) : v \in Members(ch)}, ops |-> {Name(v) : v \in ch.operators}]

\* The members hear who has come; the newcomer is shown the list.
TellJoin(u, c) ==
  roster' = [v \in Users |-> [roster[v] EXCEPT ![c] =
    CASE v = u -> NamesReply(chan'[c])
      [] v # u /\ v \in Everybody(chan'[c]) -> WithJoined(@, u)
      [] OTHER -> @]]

\* Those in heard[c] hear that u leaves channel c.
TellLeave(u, heard) ==
  roster' = [v \in Users |-> [c \in Ptrs |->
    IF v \in heard[c] THEN WithLeft(v, roster[v][c], u) ELSE roster[v][c]]]

\* The letters o of a MODE, as far as they have changed the level of w.
WithLevel(r, change, w) ==
  CASE change = "none" -> r
    [] change = "+o" -> [r EXCEPT !.ops = @ \cup {Name(w)}]
    [] change = "-o" -> [r EXCEPT !.ops = @ \ {Name(w)}]

\* Everybody hears them, with the one member they name.
TellLevel(c, change, w) ==
  roster' = [v \in Users |-> [roster[v] EXCEPT ![c] =
    IF v \in Everybody(chan'[c]) THEN WithLevel(@, change, w) ELSE @]]

-----------------------------------------------------------------------------
(* The steps of Channels with what they send *)

JoinStep(u, c) ==
  /\ \E k \in Keys \cup {NoKey} :
       Join(u, c, k) \/ \E n \in Names : Create(u, c, n, k)
  /\ TellJoin(u, c)

PartStepSilent(u, c) ==                           \* mutant: as JOIN 0 does it
  /\ Part(u, c)
  /\ TellLeave(u, [d \in Ptrs |-> IF d = c THEN Others(chan[d], u) ELSE {}])

PartStep(u, c) ==
  /\ Part(u, c)
  /\ TellLeave(u, [d \in Ptrs |-> IF d = c THEN Everybody(chan[d]) ELSE {}])

ToNobody(u) ==                                   \* mutant: erased first
  [d \in Ptrs |-> IF d \in joined[u] THEN {u} ELSE {}]

\* leaveAllChannels tells the others only, and goes by the list of the user:
\* the user itself has asked for it.
ToOthers(u) ==
  [d \in Ptrs |-> IF d \in joined[u] THEN Others(chan[d], u) \cup {u} ELSE {}]

JoinZeroStep(u) == JoinZero(u) /\ TellLeave(u, ToOthers(u))

QuitStep(u) == Quit(u) /\ TellLeave(u, ToOthers(u))

KickedStep(t) ==
  /\ KickTarget(t)
  /\ TellLeave(t, [d \in Ptrs |-> IF d = KickChan THEN Everybody(chan[d]) ELSE {}])

\* Of one member a new level, or the one it has, is announced.
ModeStep(u, c) ==
  /\ Mode(u, c)
  /\ \/ chan'[c].operators = chan[c].operators /\ TellLevel(c, "none", u)
     \/ \E w \in Nameable(chan[c]) :
          \/ chan'[c].operators = Promote(chan[c], w).operators /\ TellLevel(c, "+o", w)
          \/ chan'[c].operators = Demote(chan[c], w).operators /\ TellLevel(c, "-o", w)

\* Bound of the model: a client in a channel keeps its nickname.
IdentifyStep(u) == Identify(u) /\ (joined[u] # {} => nick' = nick)

\* Steps of which the other members hear nothing about each other.
SilentStep ==
  /\ \/ \E u \in Users : IdentifyStep(u)
     \/ \E u \in Users : QuitFaults(u)
     \/ \E u, t \in Users, c \in Ptrs : Invite(u, t, c)
     \/ \E u \in Users, c \in Ptrs, t \in Topics : Topic(u, c, t)
     \/ \E u \in Users, c \in Ptrs, targets \in TargetLists : Kick(u, c, targets)
     \/ KickMiss
     \/ KickFreed
     \/ Halted
  /\ UNCHANGED roster

RostersNext ==
  \/ \E u \in Users, c \in Ptrs : JoinStep(u, c) \/ PartStep(u, c) \/ ModeStep(u, c)
  \/ \E u \in Users : JoinZeroStep(u) \/ QuitStep(u) \/ KickedStep(u)
  \/ SilentStep

RostersInit == Init /\ roster = [v \in Users |-> [c \in Ptrs |-> Unknown]]

RostersSpec == RostersInit /\ [][RostersNext]_rosterVars

-----------------------------------------------------------------------------
(* Properties *)

\* Every member has been told exactly who is in the channel: nobody is missing
\* and nobody stays in the list who has left, whichever way people come and go.
RostersAreTrue ==
  \A c \in Ptrs : \A v \in Members(chan[c]) :
    roster[v][c].names = {Name(w) : w \in Members(chan[c])}

\* Nobody is taken for an operator who is not one, and at most one operator is
\* not known: an heir takes over without a message.
OperatorsAreKnown ==
  \A c \in Ptrs : \A v \in Members(chan[c]) :
    /\ roster[v][c].ops \subseteq {Name(w) : w \in chan[c].operators}
    /\ Cardinality({w \in chan[c].operators : Name(w) \notin roster[v][c].ops}) <= 1

\* A client that is outside a channel knows it is: it has asked to leave or has
\* been told, by PART or by the KICK of another.
LeaversAreTold ==
  \A c \in Ptrs : \A v \in Users \ Members(chan[c]) : roster[v][c] = Unknown

=============================================================================
