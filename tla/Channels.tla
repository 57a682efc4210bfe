------------------------------ MODULE Channels ------------------------------
(***************************************************************************)
(* The channels of the server: Server::_channels, the lists, modes and     *)
(* topic of each Channel, the lists _joinedChannels and _invitedChannels   *)
(* that each User keeps of them, and the commands JOIN, PART, KICK,        *)
(* INVITE, MODE, TOPIC and QUIT.  Registration contributes the clients     *)
(* and the commands that touch no channel.                                 *)
(*                                                                         *)
(* Channels and users hold raw pointers to each other, and the tests on    *)
(* the lists go by the nickname of the moment while the removals go by the *)
(* pointer.  A channel here is the address it lives at, so an address that *)
(* is freed and allocated again takes the old pointers to the new channel; *)
(* a step that would follow a pointer to a freed object stops the model    *)
(* with a fault.                                                           *)
(*                                                                         *)
(* A command is one step, but for KICK with a list of targets, which goes  *)
(* on after the operator it trusted has left.  JOIN and PART with a list   *)
(* look the channel up and test the sender again for every item: they are  *)
(* several commands with one item.                                         *)
(***************************************************************************)
EXTENDS Registration, SequencesExt

CONSTANTS
  Ptrs,         \* addresses at which channels are allocated
  Names,        \* channel names that isChanNameValid accepts
  NoName,       \* not the name of a channel
  Keys,         \* channel passwords
  NoKey,        \* no password: mode k is off
  EmptyKey,     \* the empty password, of JOIN with a list of keys like ","
  Limits,       \* numbers that MODE +l is given
  Topics,       \* topics, "" among them
  MaxInvites,   \* bound: entries of a channel in one _invitedChannels
  MaxTargets    \* bound: targets of a KICK

ASSUME NamesAssumption == NoName \notin Names
ASSUME KeysAssumption == NoKey \notin Keys /\ EmptyKey # NoKey
ASSUME LimitsAssumption == Limits \subseteq Nat \ {0}
ASSUME TopicsAssumption == "" \in Topics
ASSUME BoundsAssumption == MaxInvites \in Nat /\ MaxTargets \in Nat

VARIABLES
  chan,         \* the channel at each address
  joined,       \* User::_joinedChannels
  invites,      \* User::_invitedChannels: how often each address is in it
  kick,         \* the KICK that is running: <<channel, target>> for each
                \* target to come
  fault         \* what has been used after it was freed, "none" so far

chanVars == <<chan, joined, invites, kick, fault>>
vars == <<regVars, chanVars>>

\* A Channel.  LIMIT with _maxUsers is one number, 0 when the mode is off;
\* KEY with _password is one key.
Channel == [name : Names \cup {NoName},
            inviteOnly : BOOLEAN, topicLock : BOOLEAN,
            key : Keys \cup {NoKey}, limit : Limits \cup {0},
            topic : Topics,
            operators : SUBSET Users, normal : Seq(Users),
            invited : SUBSET Users]

\* An address without a channel.
Freed == [name |-> NoName, inviteOnly |-> FALSE, topicLock |-> FALSE,
          key |-> NoKey, limit |-> 0, topic |-> "",
          operators |-> {}, normal |-> <<>>, invited |-> {}]

ChannelsTypeOK ==
  /\ TypeOK
  /\ chan \in [Ptrs -> Channel]
  /\ joined \in [Users -> SUBSET Ptrs]
  /\ invites \in [Users -> [Ptrs -> Nat]]
  /\ kick \in Seq(Ptrs \X Nicks)
  /\ fault \in {"none", "channel", "user"}

-----------------------------------------------------------------------------
(* Lists of users *)

\* std::list::remove of a user that is in the list at most once.
Without(s, u) ==
  IF \E i \in DOMAIN s : s[i] = u
    THEN LET at == CHOOSE i \in DOMAIN s : s[i] = u
         IN  [i \in 1 .. Len(s) - 1 |-> IF i < at THEN s[i] ELSE s[i + 1]]
    ELSE s

Members(ch) == ch.operators \cup ToSet(ch.normal)

\* findUserFromList: by nickname, whoever bears it now.
Holds(list, nk) == \E v \in list : nick[v] = nk

IsOperator(ch, nk) == Holds(ch.operators, nk)
IsNormal(ch, nk) == Holds(ToSet(ch.normal), nk)
IsInvited(ch, nk) == Holds(ch.invited, nk)
InChannel(ch, nk) == Holds(Members(ch), nk)

OthersNormal(ch, u) ==                  \* mutant: one of the two lists only
  {v \in ToSet(ch.normal) : nick[v] # nick[u]}

\* Whom sendToChannel reaches with a message of u: it knows u by its nickname.
Others(ch, u) == {v \in Members(ch) : nick[v] # nick[u]}

IsLive(ch) == ch.name # NoName
IsEmpty(ch) == ch.operators = {} /\ ch.normal = <<>>

-----------------------------------------------------------------------------
(* Operations of a Channel *)

PromoteInBothLists(ch, u) ==            \* mutant: stays a normal user too
  IF IsOperator(ch, nick[u]) THEN ch ELSE [ch EXCEPT !.operators = @ \cup {u}]

Promote(ch, u) ==
  IF IsOperator(ch, nick[u])
    THEN ch
    ELSE [ch EXCEPT !.normal = Without(@, u), !.operators = @ \cup {u}]

Demote(ch, u) ==
  IF IsNormal(ch, nick[u])
    THEN ch
    ELSE [ch EXCEPT !.operators = @ \ {u}, !.normal = Append(@, u)]

InheritNot(ch) == ch                    \* mutant: no heir

\* isChannelEmpty, for a channel that is not: a channel without operators
\* promotes the normal user that has been one for longest.
Inherit(ch) ==
  IF ch.operators = {} /\ ch.normal # <<>>
    THEN Promote(ch, Head(ch.normal))
    ELSE ch

\* Channel::removeUser.
RemoveUser(ch, u) ==
  IF IsInvited(ch, nick[u])
    THEN [ch EXCEPT !.invited = @ \ {u}]
    ELSE Inherit(IF IsOperator(ch, nick[u])
                   THEN [ch EXCEPT !.operators = @ \ {u}]
                   ELSE [ch EXCEPT !.normal = Without(@, u)])

AddNormalStillInvited(ch, u) ==         \* mutant: the invitation stays
  [ch EXCEPT !.normal = Append(@, u)]

AddNormalOrHeir(ch, u) ==               \* mutant: a newcomer may inherit
  IF ch.operators = {}
    THEN [ch EXCEPT !.invited = @ \ {u}, !.operators = {u}]
    ELSE [ch EXCEPT !.invited = @ \ {u}, !.normal = Append(@, u)]

\* Channel::addUser with level NORMAL.
AddNormal(ch, u) ==
  [ch EXCEPT !.invited = IF IsInvited(ch, nick[u]) THEN @ \ {u} ELSE @,
             !.normal = Append(@, u)]

NewChannel(n, k, u) ==
  [Freed EXCEPT !.name = n, !.key = k, !.operators = {u}]

SettleNot(cs) == cs                     \* mutant: no channel is deleted

SettleWithoutNormal(cs) ==              \* mutant: operators do not count
  [c \in Ptrs |-> IF cs[c].normal = <<>> THEN Freed ELSE cs[c]]

\* deleteChannel on every channel that has lost its last member...
Settle(cs) == [c \in Ptrs |-> IF IsEmpty(cs[c]) THEN Freed ELSE cs[c]]

ForgetNot(cs) == invites                \* mutant: an empty destructor

ForgetAll(cs) ==                        \* mutant: takes an entry from everybody
  [v \in Users |-> [c \in Ptrs |->
    IF IsEmpty(cs[c]) THEN invites[v][c] - 1 ELSE invites[v][c]]]

\* ...and its destructor, which takes one entry from each user invited.
Forget(cs) ==
  [v \in Users |-> [c \in Ptrs |->
    IF IsEmpty(cs[c]) /\ v \in cs[c].invited /\ invites[v][c] > 0
      THEN invites[v][c] - 1
      ELSE invites[v][c]]]

-----------------------------------------------------------------------------
(* Commands *)

Running == kick # <<>>

KickChan == Head(kick)[1]

Idle == fault = "none" /\ ~ Running

\* A registered client sends a command and the server gets to it.
Asks(u, command) ==
  /\ Idle
  /\ Sends(u, command)
  /\ status[u] = "REGISTERED"

\* The users a command can name, nicknames and "*" alike.
CanBeNamed(u) == IsNamed(u, nick[u]) /\ Len(nick[u]) = 1

LeaveStillJoined(u, cs) ==              \* mutant: the user keeps its entry
  LET left == [c \in Ptrs |-> IF c \in cs THEN RemoveUser(chan[c], u) ELSE chan[c]]
  IN  /\ chan' = Settle(left)
      /\ invites' = Forget(left)
      /\ UNCHANGED joined

\* The channels of set cs lose user u: the second half of PART, JOIN 0, KICK.
Leave(u, cs) ==
  LET left == [c \in Ptrs |-> IF c \in cs THEN RemoveUser(chan[c], u) ELSE chan[c]]
  IN  /\ chan' = Settle(left)
      /\ invites' = Forget(left)
      /\ joined' = [joined EXCEPT ![u] = @ \ cs]

TotalUsers(ch) == Cardinality(ch.operators) + Len(ch.normal)

HasRoomForOneMore(ch) ==                \* mutant: off by one
  ch.limit > 0 => TotalUsers(ch) <= ch.limit

HasRoom(ch) == ch.limit > 0 => TotalUsers(ch) < ch.limit

Admits(ch, u, k) ==
  /\ ~ InChannel(ch, nick[u])
  /\ HasRoom(ch)
  /\ ch.inviteOnly => IsInvited(ch, nick[u])
  /\ ch.key # NoKey => k = ch.key

Join(u, c, k) ==
  /\ Asks(u, "JOIN")
  /\ IsLive(chan[c])
  /\ Admits(chan[c], u, k)
  /\ chan' = [chan EXCEPT ![c] = AddNormal(@, u)]
  /\ joined' = [joined EXCEPT ![u] = @ \cup {c}]
  /\ UNCHANGED <<regVars, invites, kick, fault>>

CreateTwice(u, c, n, k) ==              \* mutant: does not look for the name
  /\ Asks(u, "JOIN")
  /\ ~ IsLive(chan[c])
  /\ chan' = [chan EXCEPT ![c] = NewChannel(n, k, u)]
  /\ joined' = [joined EXCEPT ![u] = @ \cup {c}]
  /\ UNCHANGED <<regVars, invites, kick, fault>>

\* The channel does not exist: its creator is its operator, the key its key.
Create(u, c, n, k) ==
  /\ Asks(u, "JOIN")
  /\ \A d \in Ptrs : chan[d].name # n
  /\ ~ IsLive(chan[c])
  /\ chan' = [chan EXCEPT ![c] = NewChannel(n, k, u)]
  /\ joined' = [joined EXCEPT ![u] = @ \cup {c}]
  /\ UNCHANGED <<regVars, invites, kick, fault>>

Part(u, c) ==
  /\ Asks(u, "PART")
  /\ IsLive(chan[c])
  /\ InChannel(chan[c], nick[u])
  /\ Leave(u, {c})
  /\ UNCHANGED <<regVars, kick, fault>>

\* An entry of _joinedChannels whose channel has been deleted.
JoinedToFreed(u) == \E c \in joined[u] : ~ IsLive(chan[c])

\* leaveAllChannels goes by the pointers of _joinedChannels.
JoinZero(u) ==
  /\ Asks(u, "JOIN 0")
  /\ Leave(u, joined[u])
  /\ fault' = IF JoinedToFreed(u) THEN "channel" ELSE fault
  /\ UNCHANGED <<regVars, kick>>

InviteWithoutEntry(u, t, c) ==          \* mutant: the user does not know
  /\ Asks(u, "INVITE")
  /\ CanBeNamed(t)
  /\ IsLive(chan[c])
  /\ ~ InChannel(chan[c], nick[t])
  /\ chan' = [chan EXCEPT ![c].invited = @ \cup {t}]
  /\ UNCHANGED <<regVars, joined, invites, kick, fault>>

Invite(u, t, c) ==
  /\ Asks(u, "INVITE")
  /\ CanBeNamed(t)
  /\ IsLive(chan[c])
  /\ ~ IsInvited(chan[c], nick[u])
  /\ ~ InChannel(chan[c], nick[t])
  /\ ~ IsInvited(chan[c], nick[t])
  /\ invites[t][c] < MaxInvites
  /\ chan' = [chan EXCEPT ![c].invited = @ \cup {t}]
  /\ invites' = [invites EXCEPT ![t][c] = @ + 1]
  /\ UNCHANGED <<regVars, joined, kick, fault>>

MemberGoverns(ch, u) ==                 \* mutant: any member may
  InChannel(ch, nick[u])

\* The test of MODE, KICK and a locked TOPIC.
Governs(ch, u) == IsOperator(ch, nick[u])

\* The members that MODE o may find, by their nickname.
Nameable(ch) == {v \in Members(ch) : CanBeNamed(v)}

\* What MODE o makes of a channel: one member at most changes level.
Levels(ch) ==
  {ch} \cup {Promote(ch, v) : v \in Nameable(ch)}
       \cup {Demote(ch, v) : v \in Nameable(ch)}

\* MODE on a channel.  The sender is tested once, then every letter acts at
\* most once (l: the last one counts), so the outcomes are the combinations.
\* A parameter is never empty: +k does not give the empty key, but may leave it.
Mode(u, c) ==
  /\ Asks(u, "MODE")
  /\ IsLive(chan[c])
  /\ Governs(chan[c], u)
  /\ \E i, t \in BOOLEAN, k \in (Keys \ {EmptyKey}) \cup {NoKey, chan[c].key},
        l \in Limits \cup {0}, ch \in Levels(chan[c]) :
       chan' = [chan EXCEPT ![c] = [ch EXCEPT !.inviteOnly = i, !.topicLock = t,
                                              !.key = k, !.limit = l]]
  /\ UNCHANGED <<regVars, joined, invites, kick, fault>>

Topic(u, c, t) ==
  /\ Asks(u, "TOPIC")
  /\ IsLive(chan[c])
  /\ InChannel(chan[c], nick[u])
  /\ chan[c].topicLock => Governs(chan[c], u)
  /\ chan' = [chan EXCEPT ![c].topic = t]
  /\ UNCHANGED <<regVars, joined, invites, kick, fault>>

-----------------------------------------------------------------------------
(* KICK: the sender is tested once, the targets are looked up one by one.  *)
(* A target "*" is left out: no member bears it.                           *)

Kick(u, c, targets) ==
  /\ Asks(u, "KICK")
  /\ IsLive(chan[c])
  /\ Governs(chan[c], u)
  /\ kick' = [i \in DOMAIN targets |-> <<c, targets[i]>>]
  /\ UNCHANGED <<regVars, chan, joined, invites, fault>>

Target(t) == IsNamed(t, <<Head(kick)[2]>>)

KickTarget(t) ==
  /\ fault = "none" /\ Running
  /\ Target(t)
  /\ IsLive(chan[KickChan])
  /\ InChannel(chan[KickChan], nick[t])
  /\ Leave(t, {KickChan})
  /\ kick' = Tail(kick)
  /\ UNCHANGED <<regVars, fault>>

\* No user has the nickname, or the user is not in the channel.
KickMiss ==
  /\ fault = "none" /\ Running
  /\ \A t \in Users : Target(t) => /\ IsLive(chan[KickChan])
                                   /\ ~ InChannel(chan[KickChan], nick[t])
  /\ kick' = Tail(kick)
  /\ UNCHANGED <<regVars, chan, joined, invites, fault>>

\* An earlier target was the last member: the channel has been deleted.
KickFreed ==
  /\ fault = "none" /\ Running
  /\ \E t \in Users : Target(t)
  /\ ~ IsLive(chan[KickChan])
  /\ fault' = "channel"
  /\ UNCHANGED <<regVars, chan, joined, invites, kick>>

-----------------------------------------------------------------------------
(* The end of a client: disconnectClient and the destructor of User *)

\* The channels after leaveAllChannels, and the entries of _invitedChannels.
Emptied(u) ==
  [c \in Ptrs |-> IF c \in joined[u] THEN RemoveUser(chan[c], u) ELSE chan[c]]

\* ~User calls removeUser once for each entry; from the second call on nothing
\* changes any more.
Released(u) ==
  LET cs == Settle(Emptied(u))
      entries == Forget(Emptied(u))[u]
  IN  [c \in Ptrs |->
         CASE entries[c] = 0 -> cs[c]
           [] entries[c] = 1 -> RemoveUser(cs[c], u)
           [] OTHER -> RemoveUser(RemoveUser(cs[c], u), u)]

\* An entry of either list leads to a channel that is gone, or that the first
\* call of removeUser for the entry deletes before the second.
EntryToFreed(u) ==
  LET cs == Settle(Emptied(u))
      entries == Forget(Emptied(u))[u]
  IN  \/ JoinedToFreed(u)
      \/ \E c \in Ptrs :
           \/ entries[c] > 0 /\ ~ IsLive(cs[c])
           \/ entries[c] > 1 /\ IsEmpty(RemoveUser(cs[c], u))

\* A list that still holds the user when it is deleted.
StillListed(u) ==
  \E c \in Ptrs : u \in Members(Released(u)[c]) \cup Released(u)[c].invited

\* The entries of the others, for the channels deleted in either half.
EntriesAfter(u) ==
  [v \in Users |-> [c \in Ptrs |->
    LET deleted == \/ IsEmpty(Emptied(u)[c]) /\ v \in Emptied(u)[c].invited
                   \/ IsEmpty(Released(u)[c]) /\ v \in Released(u)[c].invited
    IN  CASE v = u -> 0
          [] v # u /\ deleted /\ invites[v][c] > 0 -> invites[v][c] - 1
          [] OTHER -> invites[v][c]]]

Quit(u) ==
  /\ Idle
  /\ Disconnect(u)
  /\ ~ EntryToFreed(u)
  /\ ~ StillListed(u)
  /\ chan' = Settle(Released(u))
  /\ invites' = EntriesAfter(u)
  /\ joined' = [joined EXCEPT ![u] = {}]
  /\ UNCHANGED <<kick, fault>>

QuitFaults(u) ==
  /\ Idle
  /\ Sends(u, "QUIT")
  /\ EntryToFreed(u) \/ StillListed(u)
  /\ fault' = IF EntryToFreed(u) THEN "channel" ELSE "user"
  /\ UNCHANGED <<regVars, chan, joined, invites, kick>>

-----------------------------------------------------------------------------

Init ==
  /\ RegInit
  /\ chan = [c \in Ptrs |-> Freed]
  /\ joined = [u \in Users |-> {}]
  /\ invites = [u \in Users |-> [c \in Ptrs |-> 0]]
  /\ kick = <<>>
  /\ fault = "none"

Identify(u) == Idle /\ Identification(u) /\ UNCHANGED chanVars

TargetLists == UNION {[1 .. n -> Nicks] : n \in 1 .. MaxTargets}

ClientStep(u) ==
  \/ Identify(u)
  \/ \E c \in Ptrs, k \in Keys \cup {NoKey} : Join(u, c, k)
  \/ \E c \in Ptrs, n \in Names, k \in Keys \cup {NoKey} : Create(u, c, n, k)
  \/ \E c \in Ptrs : Part(u, c)
  \/ JoinZero(u)
  \/ \E c \in Ptrs, t \in Users : Invite(u, t, c)
  \/ \E c \in Ptrs : Mode(u, c)
  \/ \E c \in Ptrs, t \in Topics : Topic(u, c, t)
  \/ \E c \in Ptrs, targets \in TargetLists : Kick(u, c, targets)
  \/ Quit(u)
  \/ QuitFaults(u)

KickStep ==
  \/ \E t \in Users : KickTarget(t)
  \/ KickMiss
  \/ KickFreed

\* The model of a server whose memory is no longer what the code says.
Halted == fault # "none" /\ UNCHANGED vars

Next == (\E u \in Users : ClientStep(u)) \/ KickStep \/ Halted

Spec == Init /\ [][Next]_vars

-----------------------------------------------------------------------------
(* Properties that hold whatever the clients send *)

\* A channel lives exactly as long as it has members, and findChannel finds
\* the only channel of a name.
LiveChannels ==
  \A c \in Ptrs :
    /\ IsLive(chan[c]) <=> ~ IsEmpty(chan[c])
    /\ \A d \in Ptrs : chan[c].name = chan[d].name /\ IsLive(chan[c]) => c = d

\* Every entry of _joinedChannels leads to a channel that lists the user: a
\* client that leaves or ends never follows a joined channel into freed memory.
JoinedIsListed == \A u \in Users : \A c \in joined[u] : u \in Members(chan[c])

\* Whoever a channel lists as invited has an entry for it: the destructor of
\* the channel, and the one of the user, find each other.
InvitationsAreTracked ==
  \A u \in Users, c \in Ptrs :
    u \in chan[c].invited => invites[u][c] > 0 /\ u \notin Members(chan[c])

\* A departure never leaves a channel without an operator: the longest normal
\* member inherits, also where the operator left long before (MODE -o).
DepartureLeavesOperator ==
  [][\A c \in Ptrs :
       IsLive(chan[c]) /\ IsLive(chan'[c]) /\ ~ Members(chan[c]) \subseteq Members(chan'[c])
         => chan'[c].operators # {}]_vars

-----------------------------------------------------------------------------
(* Properties that need Polite: the nicknames that the tests go by are then  *)
(* as good as the pointers that the removals go by                           *)

\* The two halves of membership agree: the list of the channel and the list of
\* the user are updated apart, one by nickname and one by pointer.
MembershipAgrees ==
  \A u \in Users, c \in Ptrs : c \in joined[u] <=> u \in Members(chan[c])

\* Nobody is operator and normal member at once, or listed twice: getTotalUsers,
\* which mode l goes by, counts everybody once.
CountedOnce == \A c \in Ptrs : TotalUsers(chan[c]) = Cardinality(Members(chan[c]))

\* What a member says in a channel, with PRIVMSG, JOIN 0 or QUIT, reaches every
\* other member and does not come back: nobody else has the sender's nickname,
\* however the members have come by theirs.
OthersAreReached ==
  \A c \in Ptrs : \A u \in Members(chan[c]) :
    Others(chan[c], u) = Members(chan[c]) \ {u}

\* The deletion of a user leaves no pointer to it behind.
UsersAreReleased == fault # "user"

\* More entries in _invitedChannels than the list of invited users answers.
StaleEntry(u, c) == invites[u][c] > IF u \in chan[c].invited THEN 1 ELSE 0

\* JOIN takes the invitation from the channel and leaves the entry of the user:
\* the entry that outlives its channel comes from there, and only from there.
StaleEntriesComeFromJoin ==
  [][\A u \in Users, c \in Ptrs :
       ~ StaleEntry(u, c) /\ StaleEntry(u, c)'
         => u \in chan[c].invited /\ c \in joined'[u] \ joined[u]]_vars

\* A client that leaves all channels or ends follows a pointer into freed memory
\* only if it holds an entry that one of its JOINs has left behind: all other
\* entries of _joinedChannels and _invitedChannels lead to channels that live
\* and, of those that a departure deletes on the way, to none twice.
FreedOnlyThroughStaleEntries ==
  [][\A u \in Users :
       fault' # fault /\ ClientStep(u) => \E c \in Ptrs : StaleEntry(u, c)]_vars

Modes(ch) == <<ch.inviteOnly, ch.topicLock, ch.key, ch.limit>>

Same(c) == IsLive(chan[c]) /\ IsLive(chan'[c])

RuledBy(c) == {u \in chan[c].operators : status[u] = "REGISTERED"}

\* What only an operator may do: change the modes or a locked topic, begin a KICK.
Governed(c) ==
  /\ Same(c)
  /\ \/ Modes(chan'[c]) # Modes(chan[c])
     \/ chan[c].topicLock /\ chan'[c].topic # chan[c].topic
     \/ kick = <<>> /\ kick' # <<>> /\ Head(kick')[1] = c

\* The client that governs a channel is itself one of its operators: not another
\* member, nor one that has been demoted or has left and still goes by a
\* nickname that an operator has, and nobody once the operators are gone.
OnlyOperatorsGovern ==
  [][\A c \in Ptrs : Governed(c) =>
       \A u \in Users \ chan[c].operators : ~ ClientStep(u)]_vars

\* While nobody leaves, the operators of a channel change only when one of them
\* is there to change them, or when a client ends that has a stale entry for
\* the channel: its destructor makes the channel look for an heir.
OnlyOperatorsAppoint ==
  [][\A c \in Ptrs :
       /\ Same(c)
       /\ chan'[c].operators # chan[c].operators
       /\ Members(chan[c]) \subseteq Members(chan'[c])
       => \/ RuledBy(c) # {}
          \/ \E u \in Connected : StaleEntry(u, c) /\ status'[u] = "GONE"]_vars

\* Whoever enters an existing channel was itself invited where that is asked,
\* uses the invitation up, and finds room within the limit.
Admission ==
  [][\A c \in Ptrs : Same(c) =>
       \A u \in Members(chan'[c]) \ Members(chan[c]) :
         /\ chan[c].inviteOnly => u \in chan[c].invited
         /\ u \notin chan'[c].invited
         /\ chan[c].limit > 0 => Cardinality(Members(chan'[c])) <= chan[c].limit]_vars

\* The channels of a name.
WithName(n) == {c \in Ptrs : chan[c].name = n}

Rm == INSTANCE Rooms WITH
  operators <- [n \in Names |-> UNION {chan[c].operators : c \in WithName(n)}],
  others <- [n \in Names |-> UNION {ToSet(chan[c].normal) : c \in WithName(n)}]

\* Channels keep the promise of Rooms, whatever lists, addresses and commands it
\* takes: each name is one room, a departure and its heir are one step, and
\* nobody enters or rises in a room by anything but JOIN and MODE o.  An
\* invitation that is left behind breaks it (see OnlyOperatorsAppoint).
RoomsSpec == Rm!Spec

=============================================================================
