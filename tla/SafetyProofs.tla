---------------------------- MODULE SafetyProofs ----------------------------
(***************************************************************************)
(* Proofs of what Channels promises to Polite clients, for any clients,    *)
(* names and bounds.  First the invariant: the lists of channels and of    *)
(* users agree about membership, and no user is deleted while a list still *)
(* holds it.  Then, from it, the properties about numbers, admission, the  *)
(* rights of operators, their appointment, the entries of                  *)
(* _invitedChannels and the freed memory that they may lead to; and that   *)
(* Channels implements Rooms where nobody is invited, with one action of   *)
(* Rooms, or none, for every step.                                         *)
(*                                                                         *)
(* Channel::removeUser looks a user up by nickname and takes it out by     *)
(* pointer.  The invariant says of which users the lists are made: members *)
(* bear a nickname, which only one client has, so that both ways of        *)
(* looking find the same user.                                             *)
(***************************************************************************)
EXTENDS ChannelsProofs, FiniteSetTheorems

\* The users whose nickname is theirs alone.
Named == {u \in Connected : nick[u] # Star}

\* A channel whose lists the two ways of looking agree on.
Sound(ch) ==
  /\ ch.operators \cap ToSet(ch.normal) = {}
  /\ ch.invited \cap Members(ch) = {}
  /\ NoRepeats(ch.normal)

Listed(ch, members, guests) == Members(ch) \subseteq members /\ ch.invited \subseteq guests

Agreement ==
  /\ TypeInv
  /\ Polite
  /\ NicksAreNames
  /\ \A c \in Ptrs : Sound(chan[c]) /\ Listed(chan[c], Named, Connected)
  /\ MembershipAgrees
  /\ InvitationsAreTracked
  /\ UsersAreReleased

-----------------------------------------------------------------------------
(* Looking by nickname is looking by pointer *)

LEMMA ByNickname ==
  ASSUME NickExclusive, NicksAreNames, NEW u \in Connected, NEW S \in SUBSET Connected
  PROVE  /\ u \in S => Holds(S, nick[u])
         /\ u \in Named => (Holds(S, nick[u]) <=> u \in S)
         /\ S \subseteq Named => (Holds(S, nick[u]) <=> u \in S)
<1>1. ASSUME NEW v \in Connected, nick[v] = nick[u], nick[v] # Star PROVE v = u
  <2>1. Len(nick[v]) = 1
    BY DEF NicksAreNames
  <2>2. ~ (Len(nick[v]) > 1)
    BY <2>1
  <2> QED
    BY <1>1, <2>2 DEF NickExclusive
<1> QED
  BY <1>1 DEF Holds, Named

\* The lists of a sound channel, looked at by nickname.
LEMMA FindUser ==
  ASSUME NickExclusive, NicksAreNames, NEW u \in Connected,
         NEW ch \in Channel, Listed(ch, Named, Connected)
  PROVE  /\ IsOperator(ch, nick[u]) <=> u \in ch.operators
         /\ IsNormal(ch, nick[u]) <=> u \in ToSet(ch.normal)
         /\ InChannel(ch, nick[u]) <=> u \in Members(ch)
         /\ u \in ch.invited => IsInvited(ch, nick[u])
         /\ u \in Named => (IsInvited(ch, nick[u]) <=> u \in ch.invited)
<1>1. Named \subseteq Connected
  BY DEF Named
<1>2. /\ ch.operators \subseteq Named
      /\ ToSet(ch.normal) \subseteq Named
      /\ Members(ch) \subseteq Named
      /\ ch.invited \subseteq Connected
  BY DEF Listed, Members
<1> QED
  BY <1>1, <1>2, ByNickname DEF IsOperator, IsNormal, IsInvited, InChannel

-----------------------------------------------------------------------------
(* What the operations do to the members *)

\* The lists after an update decide.
LEMMA PromoteMembers ==
  ASSUME NEW ch \in Channel, Sound(ch), NEW u \in Members(ch)
  PROVE  /\ Members(Promote(ch, u)) = Members(ch)
         /\ Promote(ch, u).invited = ch.invited
         /\ Sound(Promote(ch, u))
<1> DEFINE seq == Without(ch.normal, u)
           ops == ch.operators \cup {u}
           r == [ch EXCEPT !.normal = seq, !.operators = ops]
<1>1. CASE IsOperator(ch, nick[u])
  BY <1>1 DEF Promote
<1>2. CASE ~ IsOperator(ch, nick[u])
  <2>1. Promote(ch, u) = r
    BY <1>2 DEF Promote
  <2>2. ToSet(seq) = ToSet(ch.normal) \ {u} /\ NoRepeats(seq)
    BY ChannelFields, WithoutElements DEF Sound
  <2> HIDE DEF seq
  <2>3. r.normal = seq /\ r.operators = ops /\ r.invited = ch.invited
    BY DEF Channel
  <2> HIDE DEF r
  <2>4. Members(r) = Members(ch)
    BY <2>2, <2>3 DEF Members
  <2>5. Sound(r)
    BY <2>2, <2>3, <2>4 DEF Sound
  <2> QED
    BY <2>1, <2>3, <2>4, <2>5
<1> QED
  BY <1>1, <1>2

LEMMA DemoteMembers ==
  ASSUME NEW ch \in Channel, Sound(ch), NEW u \in Members(ch)
  PROVE  /\ Members(Demote(ch, u)) = Members(ch)
         /\ Demote(ch, u).invited = ch.invited
         /\ Sound(Demote(ch, u))
<1> DEFINE seq == Append(ch.normal, u)
           ops == ch.operators \ {u}
           r == [ch EXCEPT !.operators = ops, !.normal = seq]
<1>1. CASE IsNormal(ch, nick[u])
  BY <1>1 DEF Demote
<1>2. CASE ~ IsNormal(ch, nick[u])
  <2>1. Demote(ch, u) = r
    BY <1>2 DEF Demote
  <2>2. u \notin ToSet(ch.normal)
    BY <1>2 DEF IsNormal, Holds
  <2>3. ToSet(seq) = ToSet(ch.normal) \cup {u} /\ NoRepeats(seq)
    BY <2>2, ChannelFields, AppendElements DEF Sound
  <2> HIDE DEF seq
  <2>4. r.normal = seq /\ r.operators = ops /\ r.invited = ch.invited
    BY DEF Channel
  <2> HIDE DEF r
  <2>5. Members(r) = Members(ch)
    BY <2>3, <2>4 DEF Members
  <2>6. Sound(r)
    BY <2>2, <2>3, <2>4, <2>5 DEF Sound
  <2> QED
    BY <2>1, <2>4, <2>5, <2>6
<1> QED
  BY <1>1, <1>2

LEMMA InheritMembers ==
  ASSUME NEW ch \in Channel, Sound(ch)
  PROVE  /\ Members(Inherit(ch)) = Members(ch)
         /\ Inherit(ch).invited = ch.invited
         /\ Sound(Inherit(ch))
<1>1. ch.normal # <<>> => Head(ch.normal) \in Members(ch)
  BY ChannelFields, HeadElement DEF Members
<1> QED
  BY <1>1, PromoteMembers DEF Inherit

\* Channel::removeUser takes out the user, and nobody else.
LEMMA RemoveUserMembers ==
  ASSUME NickExclusive, NicksAreNames, NEW u \in Connected,
         NEW ch \in Channel, Sound(ch), Listed(ch, Named, Connected)
  PROVE  /\ Members(RemoveUser(ch, u)) = Members(ch) \ {u}
         /\ RemoveUser(ch, u).invited = ch.invited \ {u}
         /\ Sound(RemoveUser(ch, u))
         /\ Listed(RemoveUser(ch, u), Named, Connected)
<1> DEFINE r == RemoveUser(ch, u)
           seq == Without(ch.normal, u)
           ops == ch.operators \ {u}
           inv == ch.invited \ {u}
           o == [ch EXCEPT !.operators = ops]
           n == [ch EXCEPT !.normal = seq]
           i == [ch EXCEPT !.invited = inv]
<1>1. r = IF IsInvited(ch, nick[u])
            THEN i ELSE Inherit(IF IsOperator(ch, nick[u]) THEN o ELSE n)
  BY DEF RemoveUser
<1>2. /\ IsOperator(ch, nick[u]) <=> u \in ch.operators
      /\ u \in ch.invited => IsInvited(ch, nick[u])
      /\ u \in Named => (IsInvited(ch, nick[u]) <=> u \in ch.invited)
  BY FindUser
<1>3. u \in Users
  BY DEF Connected
<1>4. /\ ToSet(seq) = ToSet(ch.normal) \ {u}
      /\ NoRepeats(seq)
      /\ seq \in Seq(Users)
  BY ChannelFields, WithoutElements, WithoutType DEF Sound
<1>5. /\ i.operators = ch.operators /\ i.normal = ch.normal /\ i.invited = inv
      /\ o.operators = ops /\ o.normal = ch.normal /\ o.invited = ch.invited
      /\ n.operators = ch.operators /\ n.normal = seq /\ n.invited = ch.invited
  BY DEF Channel
<1>6. o \in Channel /\ n \in Channel
  BY <1>4, ChannelFields, WithLists
<1> HIDE DEF r, seq, o, n, i
<1>7. CASE IsInvited(ch, nick[u])
  <2>1. r = i /\ u \notin Members(ch)
    BY <1>1, <1>2, <1>7 DEF Listed, Sound
  <2>2. Members(i) = Members(ch)
    BY <1>5 DEF Members
  <2>3. Sound(i)
    BY <1>5, <2>2 DEF Sound
  <2> QED
    BY <1>5, <2>1, <2>2, <2>3 DEF r, Listed
<1>8. CASE ~ IsInvited(ch, nick[u]) /\ u \in ch.operators
  <2>1. r = Inherit(o) /\ inv = ch.invited
    BY <1>1, <1>2, <1>8
  <2>2. Members(o) = Members(ch) \ {u}
    BY <1>5, <1>8 DEF Members, Sound
  <2>3. Sound(o)
    BY <1>5, <2>2 DEF Sound
  <2> QED
    BY <1>5, <1>6, <2>1, <2>2, <2>3, InheritMembers DEF r, Listed
<1>9. CASE ~ IsInvited(ch, nick[u]) /\ u \notin ch.operators
  <2>1. r = Inherit(n) /\ inv = ch.invited
    BY <1>1, <1>2, <1>9
  <2>2. Members(n) = Members(ch) \ {u}
    BY <1>4, <1>5, <1>9 DEF Members
  <2>3. Sound(n)
    BY <1>4, <1>5, <2>2 DEF Sound
  <2> QED
    BY <1>5, <1>6, <2>1, <2>2, <2>3, InheritMembers DEF r, Listed
<1> QED
  BY <1>7, <1>8, <1>9

-----------------------------------------------------------------------------
(* The actions *)

\* What is to be shown of a step that leaves the clients alone.
LEMMA ChannelStepAgreement ==
  ASSUME Agreement, TypeInv', UNCHANGED regVars, fault' # "user",
         \A c \in Ptrs : Sound(chan'[c]) /\ Listed(chan'[c], Named, Connected),
         \A v \in Users, c \in Ptrs : c \in joined'[v] <=> v \in Members(chan'[c]),
         \A v \in Users, c \in Ptrs : v \in chan'[c].invited => invites'[v][c] > 0
  PROVE  Agreement'
<1>1. Named' = Named /\ Connected' = Connected
  BY DEF regVars, Named, Connected
<1>2. NicksAreNames' /\ Polite'
  BY <1>1 DEF Agreement, NicksAreNames, Polite, regVars
<1>3. \A c \in Ptrs : Sound(chan'[c]) /\ Listed(chan'[c], Named', Connected')
  BY <1>1
<1>4. MembershipAgrees' /\ UsersAreReleased'
  BY DEF MembershipAgrees, UsersAreReleased
<1>5. InvitationsAreTracked'
  BY DEF InvitationsAreTracked, Sound
<1> QED
  BY <1>2, <1>3, <1>4, <1>5 DEF Agreement

\* One channel changes, and at most one user enters it.
LEMMA OneChannelAgreement ==
  ASSUME Agreement, TypeInv', UNCHANGED regVars, UNCHANGED fault,
         NEW c \in Ptrs, NEW r, chan' = [chan EXCEPT ![c] = r],
         Sound(r), Listed(r, Named, Connected),
         \A v \in Users : c \in joined'[v] <=> v \in Members(r),
         \A v \in Users, d \in Ptrs \ {c} : d \in joined'[v] <=> d \in joined[v],
         \A v \in Users : v \in r.invited => invites'[v][c] > 0,
         \A v \in Users, d \in Ptrs \ {c} : invites'[v][d] = invites[v][d]
  PROVE  Agreement'
<1>1. \A d \in Ptrs : chan'[d] = IF d = c THEN r ELSE chan[d]
  BY DEF Agreement, TypeInv, ChannelsTypeOK
<1>2. \A d \in Ptrs : Sound(chan'[d]) /\ Listed(chan'[d], Named, Connected)
  BY <1>1 DEF Agreement
<1>3. \A v \in Users, d \in Ptrs : d \in joined'[v] <=> v \in Members(chan'[d])
  BY <1>1 DEF Agreement, MembershipAgrees
<1>4. \A v \in Users, d \in Ptrs : v \in chan'[d].invited => invites'[v][d] > 0
  BY <1>1 DEF Agreement, InvitationsAreTracked
<1> QED
  BY <1>2, <1>3, <1>4, ChannelStepAgreement DEF Agreement, UsersAreReleased

\* A registered client has a nickname.
LEMMA RegisteredNamed ==
  ASSUME Agreement, NEW u \in Users, status[u] = "REGISTERED"
  PROVE  u \in Connected /\ u \in Named
  BY DEF Agreement, TypeInv, RegInv, IdentityMatchesStatus, Connected, Named

LEMMA ChannelAgreement ==
  ASSUME Agreement, NEW c \in Ptrs
  PROVE  /\ chan[c] \in Channel
         /\ Sound(chan[c])
         /\ Listed(chan[c], Named, Connected)
         /\ NickExclusive
         /\ NicksAreNames
  BY DEF Agreement, TypeInv, RegInv, ChannelsTypeOK

LEMMA JoinAgreement ==
  ASSUME Agreement, NEW u \in Users, NEW c \in Ptrs, NEW k, Join(u, c, k)
  PROVE  Agreement'
<1> DEFINE ch == chan[c]
           inv == IF IsInvited(ch, nick[u]) THEN ch.invited \ {u} ELSE ch.invited
           seq == Append(ch.normal, u)
           r == [ch EXCEPT !.invited = inv, !.normal = seq]
<1>1. u \in Connected /\ u \in Named
  BY RegisteredNamed DEF Join, Asks
<1>2. /\ ch \in Channel /\ Sound(ch) /\ Listed(ch, Named, Connected)
      /\ InChannel(ch, nick[u]) <=> u \in Members(ch)
      /\ IsInvited(ch, nick[u]) <=> u \in ch.invited
  BY <1>1, ChannelAgreement, FindUser
<1>3. u \notin Members(ch)
  BY <1>2 DEF Join, Admits
<1>4. inv = ch.invited \ {u}
  BY <1>2
<1>5. ToSet(seq) = ToSet(ch.normal) \cup {u} /\ NoRepeats(seq)
  BY <1>2, <1>3, ChannelFields, AppendElements DEF Sound, Members
<1>6. chan' = [chan EXCEPT ![c] = r]
  BY DEF Join, AddNormal
<1>7. r.operators = ch.operators /\ r.normal = seq /\ r.invited = inv
  BY <1>2 DEF Channel
<1> HIDE DEF r, seq, inv
<1>8. Members(r) = Members(ch) \cup {u}
  BY <1>5, <1>7 DEF Members
<1>9. Sound(r) /\ Listed(r, Named, Connected)
  BY <1>1, <1>2, <1>3, <1>4, <1>5, <1>7, <1>8 DEF Sound, Listed, Members
<1>10. \A v \in Users, d \in Ptrs :
         d \in joined'[v] <=> d \in joined[v] \/ (v = u /\ d = c)
  BY DEF Join, Agreement, TypeInv, ChannelsTypeOK
<1>11. TypeInv'
  BY JoinType DEF Agreement
<1>12. \A v \in Users : c \in joined'[v] <=> v \in Members(r)
  BY <1>8, <1>10 DEF Agreement, MembershipAgrees
<1>13. \A v \in Users : v \in r.invited => invites'[v][c] > 0
  BY <1>4, <1>7 DEF Join, Agreement, InvitationsAreTracked
<1> QED
  BY <1>6, <1>9, <1>10, <1>11, <1>12, <1>13, OneChannelAgreement DEF Join

LEMMA CreateAgreement ==
  ASSUME Agreement, NEW u \in Users, NEW c \in Ptrs, NEW n \in Names,
         NEW k \in Keys \cup {NoKey}, Create(u, c, n, k), LiveChannels
  PROVE  Agreement'
<1> DEFINE r == NewChannel(n, k, u)
<1>1. u \in Connected /\ u \in Named
  BY RegisteredNamed DEF Create, Asks
<1>2. r.operators = {u} /\ r.normal = <<>> /\ r.invited = {}
  BY DEF NewChannel, Freed
<1>3. chan' = [chan EXCEPT ![c] = r] /\ TypeInv'
  BY CreateType DEF Create, Agreement
<1> HIDE DEF r
<1>4. Members(r) = {u} /\ NoRepeats(r.normal)
  BY <1>2 DEF Members, ToSet, NoRepeats
<1>5. Sound(r) /\ Listed(r, Named, Connected)
  BY <1>1, <1>2, <1>4 DEF Sound, Listed, ToSet
<1>6. Members(chan[c]) = {}
  BY ChannelAgreement, EmptyMembers DEF Create, LiveChannels
<1>7. \A v \in Users, d \in Ptrs :
        d \in joined'[v] <=> d \in joined[v] \/ (v = u /\ d = c)
  BY DEF Create, Agreement, TypeInv, ChannelsTypeOK
<1>8. \A v \in Users : c \in joined'[v] <=> v \in Members(r)
  BY <1>4, <1>6, <1>7 DEF Agreement, MembershipAgrees
<1> QED
  BY <1>2, <1>3, <1>5, <1>7, <1>8, OneChannelAgreement DEF Create

LEMMA InviteAgreement ==
  ASSUME Agreement, NEW u \in Users, NEW t \in Users, NEW c \in Ptrs, Invite(u, t, c)
  PROVE  Agreement'
<1> DEFINE ch == chan[c]
           inv == ch.invited \cup {t}
           r == [ch EXCEPT !.invited = inv]
<1>1. t \in Connected
  BY DEF Invite, CanBeNamed, IsNamed, Bearers
<1>2. /\ ch \in Channel /\ Sound(ch) /\ Listed(ch, Named, Connected)
      /\ t \notin Members(ch)
  BY <1>1, ChannelAgreement, FindUser DEF Invite
<1>3. chan' = [chan EXCEPT ![c] = r] /\ TypeInv'
  BY InviteType DEF Invite, Agreement
<1>4. r.operators = ch.operators /\ r.normal = ch.normal /\ r.invited = inv
  BY <1>2 DEF Channel
<1> HIDE DEF r
<1>5. Members(r) = Members(ch)
  BY <1>4 DEF Members
<1>6. Sound(r) /\ Listed(r, Named, Connected)
  BY <1>1, <1>2, <1>4, <1>5 DEF Sound, Listed
<1>7. \A v \in Users, d \in Ptrs :
        /\ invites[v][d] \in Nat
        /\ invites'[v][d] = IF v = t /\ d = c THEN invites[v][d] + 1 ELSE invites[v][d]
  BY DEF Invite, Agreement, TypeInv, ChannelsTypeOK
<1>8. \A v \in Users : v \in r.invited => invites'[v][c] > 0
  BY <1>4, <1>7 DEF Agreement, InvitationsAreTracked
<1>9. \A v \in Users : c \in joined'[v] <=> v \in Members(r)
  BY <1>5 DEF Invite, Agreement, MembershipAgrees
<1>10. UNCHANGED <<regVars, joined, kick, fault>>
  BY DEF Invite
<1> HIDE DEF ch, inv
<1> QED
  BY <1>3, <1>6, <1>7, <1>8, <1>9, <1>10, OneChannelAgreement

LEMMA ModeAgreement ==
  ASSUME Agreement, NEW u \in Users, NEW c \in Ptrs, Mode(u, c)
  PROVE  Agreement'
<1>1. PICK r \in Channel, ch \in Levels(chan[c]) :
        /\ chan' = [chan EXCEPT ![c] = r]
        /\ r.operators = ch.operators
        /\ r.normal = ch.normal
        /\ r.invited = ch.invited
        /\ r.name = ch.name
  BY ModeChannel DEF Agreement
<1>2. chan[c] \in Channel /\ Sound(chan[c]) /\ Listed(chan[c], Named, Connected)
  BY ChannelAgreement
<1>3. Sound(ch) /\ Members(ch) = Members(chan[c]) /\ ch.invited = chan[c].invited
  BY <1>2, PromoteMembers, DemoteMembers DEF Levels, Nameable
<1>4. Members(r) = Members(chan[c])
  BY <1>1, <1>3 DEF Members
<1>5. Sound(r) /\ Listed(r, Named, Connected)
  BY <1>1, <1>2, <1>3, <1>4 DEF Sound, Listed
<1>6. TypeInv'
  BY ModeType DEF Agreement
<1> QED
  BY <1>1, <1>3, <1>4, <1>5, <1>6, OneChannelAgreement
     DEF Mode, Agreement, MembershipAgrees, InvitationsAreTracked

LEMMA TopicAgreement ==
  ASSUME Agreement, NEW u \in Users, NEW c \in Ptrs, NEW t \in Topics, Topic(u, c, t)
  PROVE  Agreement'
<1> DEFINE r == [chan[c] EXCEPT !.topic = t]
<1>1. chan[c] \in Channel /\ Sound(chan[c]) /\ Listed(chan[c], Named, Connected)
  BY ChannelAgreement
<1>2. /\ r.operators = chan[c].operators
      /\ r.normal = chan[c].normal
      /\ r.invited = chan[c].invited
  BY <1>1 DEF Channel
<1>3. chan' = [chan EXCEPT ![c] = r] /\ TypeInv'
  BY TopicType DEF Topic, Agreement
<1> HIDE DEF r
<1>4. Members(r) = Members(chan[c])
  BY <1>2 DEF Members
<1>5. Sound(r) /\ Listed(r, Named, Connected)
  BY <1>1, <1>2, <1>4 DEF Sound, Listed
<1> QED
  BY <1>2, <1>3, <1>4, <1>5, OneChannelAgreement
     DEF Topic, Agreement, MembershipAgrees, InvitationsAreTracked

\* An operation that takes a user out of some channels and frees the empty ones.
LEMMA SettledChannel ==
  ASSUME NEW ch \in Channel, Sound(ch), Listed(ch, Named, Connected)
  PROVE  LET r == IF IsEmpty(ch) THEN Freed ELSE ch IN
           /\ Members(r) = Members(ch)
           /\ r.invited = IF IsEmpty(ch) THEN {} ELSE ch.invited
           /\ Sound(r)
           /\ Listed(r, Named, Connected)
<1>1. Freed.operators = {} /\ Freed.normal = <<>> /\ Freed.invited = {}
  BY DEF Freed
<1>2. Members(Freed) = {} /\ NoRepeats(<<>>)
  BY <1>1 DEF Members, ToSet, NoRepeats
<1>3. Sound(Freed) /\ Listed(Freed, Named, Connected)
  BY <1>1, <1>2 DEF Sound, Listed
<1>4. IsEmpty(ch) => Members(ch) = {}
  BY EmptyMembers
<1> QED
  BY <1>1, <1>2, <1>3, <1>4

LEMMA LeaveAgreement ==
  ASSUME Agreement, NEW u \in Connected, NEW cs \in SUBSET Ptrs, Leave(u, cs),
         TypeInv', UNCHANGED regVars, fault' # "user"
  PROVE  Agreement'
<1> DEFINE left == [c \in Ptrs |-> IF c \in cs THEN RemoveUser(chan[c], u) ELSE chan[c]]
<1>1. u \in Users
  BY DEF Connected
<1>2. ASSUME NEW c \in Ptrs
      PROVE  /\ left[c] \in Channel
             /\ Members(left[c]) = IF c \in cs THEN Members(chan[c]) \ {u} ELSE Members(chan[c])
             /\ left[c].invited \subseteq chan[c].invited
             /\ Sound(left[c])
             /\ Listed(left[c], Named, Connected)
  BY <1>1, ChannelAgreement, RemoveUserType, RemoveUserMembers
<1>3. chan' = Settle(left) /\ invites' = Forget(left)
  BY DEF Leave
<1>4. \A c \in Ptrs, v \in Users : c \in joined'[v] <=> c \in joined[v] /\ ~ (v = u /\ c \in cs)
  BY DEF Leave, Agreement, TypeInv, ChannelsTypeOK
<1> HIDE DEF left
<1>5. \A c \in Ptrs : chan'[c] = IF IsEmpty(left[c]) THEN Freed ELSE left[c]
  BY <1>3 DEF Settle
<1>6. \A c \in Ptrs : /\ Members(chan'[c]) = Members(left[c])
                      /\ chan'[c].invited = IF IsEmpty(left[c]) THEN {} ELSE left[c].invited
                      /\ Sound(chan'[c])
                      /\ Listed(chan'[c], Named, Connected)
  BY <1>2, <1>5, SettledChannel
<1>7. \A v \in Users, c \in Ptrs : c \in joined'[v] <=> v \in Members(chan'[c])
  BY <1>2, <1>4, <1>6 DEF Agreement, MembershipAgrees
<1>8. ASSUME NEW v \in Users, NEW c \in Ptrs, v \in chan'[c].invited
      PROVE  invites'[v][c] > 0
  <2>1. ~ IsEmpty(left[c]) /\ v \in chan[c].invited
    BY <1>2, <1>6, <1>8
  <2>2. invites'[v][c] = invites[v][c]
    BY <1>3, <2>1 DEF Forget
  <2> QED
    BY <2>1, <2>2 DEF Agreement, InvitationsAreTracked
<1> QED
  BY <1>6, <1>7, <1>8, ChannelStepAgreement DEF Agreement, UsersAreReleased

\* What the deletion of a user leaves of a channel.
LEMMA ReleasedAgreement ==
  ASSUME Agreement, NEW u \in Connected, NEW c \in Ptrs
  PROVE  LET r == Released(u)[c] IN
           /\ r \in Channel
           /\ Members(r) = Members(chan[c]) \ {u}
           /\ r.invited \subseteq Emptied(u)[c].invited
           /\ Emptied(u)[c].invited \subseteq chan[c].invited
           /\ u \notin r.invited
           /\ IsEmpty(Emptied(u)[c]) => r.invited = {}
           /\ Sound(r)
           /\ Listed(r, Named, Connected)
<1> DEFINE e == Emptied(u)[c]
           s == IF IsEmpty(e) THEN Freed ELSE e
           r == Released(u)[c]
<1>1. u \in Users /\ ChannelsTypeOK
  BY DEF Connected, Agreement, TypeInv
<1>2. e = IF c \in joined[u] THEN RemoveUser(chan[c], u) ELSE chan[c]
  BY DEF Emptied
<1>3. e \in Channel
  BY <1>1, EndTypes
<1>4. c \in joined[u] <=> u \in Members(chan[c])
  BY <1>1 DEF Agreement, MembershipAgrees
<1>5. /\ Members(e) = Members(chan[c]) \ {u}
      /\ e.invited \subseteq chan[c].invited
      /\ Sound(e)
      /\ Listed(e, Named, Connected)
  BY <1>2, <1>4, ChannelAgreement, RemoveUserMembers
<1>6. s = Settle(Emptied(u))[c]
  BY DEF Settle
<1> HIDE DEF e
<1>7. /\ Members(s) = Members(e)
      /\ s.invited = IF IsEmpty(e) THEN {} ELSE e.invited
      /\ Sound(s)
      /\ Listed(s, Named, Connected)
  BY <1>3, <1>5, SettledChannel
<1>8. s \in Channel
  BY <1>3, FreedType
<1> HIDE DEF s
<1>9. /\ RemoveUser(s, u) \in Channel
      /\ Members(RemoveUser(s, u)) = Members(s) \ {u}
      /\ RemoveUser(s, u).invited = s.invited \ {u}
      /\ Sound(RemoveUser(s, u))
      /\ Listed(RemoveUser(s, u), Named, Connected)
  BY <1>1, <1>7, <1>8, ChannelAgreement, RemoveUserType, RemoveUserMembers
<1>10. LET q == RemoveUser(RemoveUser(s, u), u) IN
      /\ q \in Channel
      /\ Members(q) = Members(s) \ {u}
      /\ q.invited = s.invited \ {u}
      /\ Sound(q)
      /\ Listed(q, Named, Connected)
  BY <1>1, <1>9, ChannelAgreement, RemoveUserType, RemoveUserMembers
<1>11. ASSUME Forget(Emptied(u))[u][c] = 0 PROVE u \notin s.invited
  <2> SUFFICES ASSUME u \in s.invited PROVE FALSE
    OBVIOUS
  <2>1. ~ IsEmpty(e) /\ u \in chan[c].invited
    BY <1>5, <1>7
  <2>2. Forget(Emptied(u))[u][c] = invites[u][c]
    BY <1>1, <2>1 DEF Forget, e
  <2>3. invites[u][c] > 0
    BY <1>1, <2>1 DEF Agreement, InvitationsAreTracked
  <2> QED
    BY <1>11, <2>2, <2>3
<1>12. \/ r = s /\ Forget(Emptied(u))[u][c] = 0
       \/ r = RemoveUser(s, u)
       \/ r = RemoveUser(RemoveUser(s, u), u)
  BY <1>1, <1>6, ReleasedCases
<1> HIDE DEF r
<1>13. /\ r \in Channel
       /\ Members(r) = Members(s) \ {u}
       /\ r.invited = s.invited \ {u}
       /\ Sound(r)
       /\ Listed(r, Named, Connected)
  <2>1. CASE r = s /\ Forget(Emptied(u))[u][c] = 0
    BY <1>5, <1>7, <1>8, <1>11, <2>1
  <2>2. CASE r = RemoveUser(s, u)
    BY <1>9, <2>2
  <2>3. CASE r = RemoveUser(RemoveUser(s, u), u)
    BY <1>10, <2>3
  <2> QED
    BY <1>12, <2>1, <2>2, <2>3
<1> QED
  BY <1>5, <1>7, <1>13 DEF r, e

LEMMA QuitAgreement ==
  ASSUME Agreement, NEW u \in Users, Quit(u) PROVE Agreement'
<1>1. u \in Connected /\ TypeInv'
  BY QuitType DEF Quit, Disconnect, Sends, Agreement
<1>2. Connected' = Connected \ {u} /\ Named' = Named \ {u} /\ Polite'
  BY DEF Quit, Disconnect, Connected, Named, Agreement, Polite, TypeInv, RegInv, TypeOK
<1>3. NicksAreNames'
  BY <1>2 DEF NicksAreNames, Quit, Disconnect, Connected, Agreement, TypeInv, RegInv, TypeOK
<1>4. ASSUME NEW c \in Ptrs
      PROVE  /\ Members(chan'[c]) = Members(chan[c]) \ {u}
             /\ Sound(chan'[c])
             /\ Listed(chan'[c], Named', Connected')
             /\ u \notin chan'[c].invited
             /\ chan'[c].invited \subseteq chan[c].invited
             /\ chan'[c].invited # {} => ~ IsEmpty(Emptied(u)[c]) /\ ~ IsEmpty(Released(u)[c])
  <2> DEFINE r == Released(u)[c]
  <2>1. /\ r \in Channel
        /\ Members(r) = Members(chan[c]) \ {u}
        /\ r.invited \subseteq chan[c].invited
        /\ u \notin r.invited
        /\ IsEmpty(Emptied(u)[c]) => r.invited = {}
        /\ Sound(r)
        /\ Listed(r, Named, Connected)
    BY <1>1, ReleasedAgreement
  <2>2. chan'[c] = IF IsEmpty(r) THEN Freed ELSE r
    BY DEF Quit, Settle
  <2> HIDE DEF r
  <2>3. /\ Members(chan'[c]) = Members(r)
        /\ chan'[c].invited = IF IsEmpty(r) THEN {} ELSE r.invited
        /\ Sound(chan'[c])
        /\ Listed(chan'[c], Named, Connected)
    BY <2>1, <2>2, SettledChannel
  <2>4. Listed(chan'[c], Named', Connected')
    BY <1>2, <2>1, <2>3 DEF Listed
  <2> QED
    BY <2>1, <2>3, <2>4 DEF r
<1>5. MembershipAgrees'
  <2>1. \A v \in Users : joined'[v] = IF v = u THEN {} ELSE joined[v]
    BY DEF Quit, Agreement, TypeInv, ChannelsTypeOK
  <2> QED
    BY <1>4, <2>1 DEF Agreement, MembershipAgrees
<1>6. InvitationsAreTracked'
  <2> SUFFICES ASSUME NEW v \in Users, NEW c \in Ptrs, v \in chan'[c].invited
               PROVE  invites'[v][c] > 0 /\ v \notin Members(chan'[c])
    BY DEF InvitationsAreTracked
  <2>1. v # u /\ v \in chan[c].invited
    BY <1>4
  <2>2. invites'[v][c] = invites[v][c]
    BY <1>4, <2>1 DEF Quit, EntriesAfter
  <2>3. v \notin Members(chan'[c])
    BY <1>4 DEF Sound
  <2> QED
    BY <2>1, <2>2, <2>3 DEF Agreement, InvitationsAreTracked
<1> QED
  BY <1>1, <1>2, <1>3, <1>4, <1>5, <1>6 DEF Agreement, UsersAreReleased, Quit

LEMMA QuitFaultsAgreement ==
  ASSUME Agreement, NEW u \in Users, QuitFaults(u) PROVE Agreement'
<1>1. u \in Connected
  BY DEF QuitFaults, Sends
<1>2. ~ StillListed(u)
  BY <1>1, ReleasedAgreement DEF StillListed
<1>3. fault' # "user"
  BY <1>2 DEF QuitFaults
<1>4. TypeInv'
  BY QuitFaultsType DEF Agreement
<1> QED
  BY <1>3, <1>4, ChannelStepAgreement
     DEF QuitFaults, Agreement, MembershipAgrees, InvitationsAreTracked

LEMMA IdentifyAgreement ==
  ASSUME Agreement, NEW u \in Users, Identify(u) PROVE Agreement'
<1>1. TypeInv' /\ UNCHANGED chanVars
  BY IdentifyType DEF Agreement, Identify
<1>2. Polite' /\ TypeOK
  BY DEF Agreement, Polite, TypeInv, RegInv
<1>3. /\ Connected \subseteq Connected'
      /\ Named \subseteq Named'
      /\ NicksAreNames'
  <2> USE DEF Agreement, NicksAreNames, TypeOK, Connected, Named
  <2>1. CASE Accept(u)
    <3>1. /\ \A v \in Users : status'[v] = IF v = u THEN "CONNECTED" ELSE status[v]
          /\ \A v \in Users : nick'[v] = IF v = u THEN Star ELSE nick[v]
          /\ status[u] = "GONE"
      BY <1>2, <2>1 DEF Accept
    <3> QED
      BY <3>1, StarLength
  <2>2. ASSUME NEW n \in Nicks, Nick(u, n)
        PROVE  /\ Connected \subseteq Connected'
               /\ Named \subseteq Named'
               /\ NicksAreNames'
    <3>1. /\ \A v \in Users : status'[v] = IF v = u THEN AfterNick(status[u]) ELSE status[v]
          /\ \A v \in Users : nick'[v] = IF v = u THEN <<n>> ELSE nick[v]
          /\ status[u] # "GONE"
      BY <1>2, <2>2 DEF Nick, Sends
    <3>2. AfterNick(status[u]) # "GONE"
      BY <3>1 DEF AfterNick
    <3> QED
      BY <3>1, <3>2, NickNotStar, NickLength
  <2>3. CASE Pass(u)
    <3>1. /\ \A v \in Users : status'[v] = IF v = u THEN "PASSWORDACCEPTED" ELSE status[v]
          /\ nick' = nick
          /\ status[u] # "GONE"
      BY <1>2, <2>3 DEF Pass, Sends
    <3> QED
      BY <3>1
  <2>4. CASE UserCmd(u)
    <3>1. /\ \A v \in Users : status'[v] = IF v = u THEN AfterUser(status[u]) ELSE status[v]
          /\ nick' = nick
          /\ status[u] # "GONE"
      BY <1>2, <2>4 DEF UserCmd, Sends
    <3>2. AfterUser(status[u]) # "GONE"
      BY <3>1 DEF AfterUser
    <3> QED
      BY <3>1, <3>2
  <2>5. CASE Oper(u) \/ ModeSelf(u)
    BY <2>5 DEF Oper, ModeSelf
  <2>6. ~ OperShort(u) /\ \A n \in Nicks : ~ PrivmsgNobody(u, n)
    BY DEF OperShort, PrivmsgNobody, Sends, Polite, Mistakes
  <2> QED
    BY <2>1, <2>2, <2>3, <2>4, <2>5, <2>6 DEF Identify, Identification
<1>4. \A c \in Ptrs : Sound(chan'[c]) /\ Listed(chan'[c], Named', Connected')
  BY <1>1, <1>3 DEF Agreement, Listed, chanVars
<1>5. MembershipAgrees' /\ InvitationsAreTracked' /\ UsersAreReleased'
  BY <1>1 DEF Agreement, chanVars, MembershipAgrees, InvitationsAreTracked, UsersAreReleased
<1> QED
  BY <1>1, <1>2, <1>3, <1>4, <1>5 DEF Agreement

\* A step that moves neither clients nor lists.
LEMMA SameListsAgreement ==
  ASSUME Agreement, TypeInv', UNCHANGED <<regVars, chan, joined, invites>>, fault' # "user"
  PROVE  Agreement'
  BY ChannelStepAgreement DEF Agreement, MembershipAgrees, InvitationsAreTracked

LEMMA ClientStepAgreement ==
  ASSUME Agreement, LiveChannels, NEW u \in Users, ClientStep(u) PROVE Agreement'
<1>1. TypeInv' /\ TypeInv /\ fault # "user"
  BY ClientStepType DEF Agreement, UsersAreReleased
<1>2. CASE Identify(u)
  BY <1>2, IdentifyAgreement
<1>3. CASE \E c \in Ptrs, k \in Keys \cup {NoKey} : Join(u, c, k)
  BY <1>3, JoinAgreement
<1>4. CASE \E c \in Ptrs, n \in Names, k \in Keys \cup {NoKey} : Create(u, c, n, k)
  BY <1>4, CreateAgreement
<1>5. ASSUME NEW c \in Ptrs, Part(u, c) PROVE Agreement'
  BY <1>1, <1>5, LeaveAgreement DEF Part, Asks, Sends
<1>6. CASE JoinZero(u)
  BY <1>1, <1>6, LeaveAgreement DEF JoinZero, Asks, Sends, TypeInv, ChannelsTypeOK
<1>7. CASE \E c \in Ptrs, t \in Users : Invite(u, t, c)
  BY <1>7, InviteAgreement
<1>8. CASE \E c \in Ptrs : Mode(u, c)
  BY <1>8, ModeAgreement
<1>9. CASE \E c \in Ptrs, t \in Topics : Topic(u, c, t)
  BY <1>9, TopicAgreement
<1>10. ASSUME NEW c \in Ptrs, NEW targets, Kick(u, c, targets) PROVE Agreement'
  BY <1>1, <1>10, SameListsAgreement DEF Kick
<1>11. CASE Quit(u)
  BY <1>11, QuitAgreement
<1>12. CASE QuitFaults(u)
  BY <1>12, QuitFaultsAgreement
<1> QED
  BY <1>2, <1>3, <1>4, <1>5, <1>6, <1>7, <1>8, <1>9, <1>10, <1>11, <1>12 DEF ClientStep

LEMMA KickStepAgreement == ASSUME Agreement, KickStep PROVE Agreement'
<1>1. TypeInv' /\ TypeInv /\ fault # "user"
  BY KickStepType DEF Agreement, UsersAreReleased
<1>2. ASSUME NEW t \in Users, KickTarget(t) PROVE Agreement'
  <2>1. t \in Connected /\ KickChan \in Ptrs
    BY <1>1, <1>2, KickParts DEF KickTarget, Target, IsNamed, Bearers
  <2> QED
    BY <1>1, <1>2, <2>1, LeaveAgreement DEF KickTarget
<1>3. CASE KickMiss \/ KickFreed
  BY <1>1, <1>3, SameListsAgreement DEF KickMiss, KickFreed
<1> QED
  BY <1>2, <1>3 DEF KickStep

LEMMA AgreementInit == Polite /\ Init => Agreement
<1> SUFFICES ASSUME Polite, Init PROVE Agreement
  OBVIOUS
<1>1. TypeInv /\ Connected = {}
  BY ChannelsInitType DEF Init, RegInit, Connected
<1>2. Freed.operators = {} /\ Freed.normal = <<>> /\ Freed.invited = {}
  BY DEF Freed
<1>3. Members(Freed) = {} /\ Sound(Freed) /\ Listed(Freed, Named, Connected)
  BY <1>2 DEF Members, ToSet, Sound, NoRepeats, Listed
<1>4. \A c \in Ptrs : chan[c] = Freed
  BY DEF Init
<1>5. MembershipAgrees /\ InvitationsAreTracked /\ UsersAreReleased
  BY <1>2, <1>3, <1>4
     DEF Init, MembershipAgrees, InvitationsAreTracked, UsersAreReleased
<1> QED
  BY <1>1, <1>3, <1>4, <1>5 DEF Agreement, NicksAreNames

LEMMA AgreementStep == Agreement /\ LiveInv /\ [Next]_vars => Agreement'
<1> SUFFICES ASSUME Agreement, LiveInv, [Next]_vars PROVE Agreement'
  OBVIOUS
<1>1. CASE UNCHANGED vars
  BY <1>1, ChannelsStutterType, SameListsAgreement
     DEF vars, chanVars, Agreement, UsersAreReleased
<1>2. CASE Next
  BY <1>1, <1>2, ClientStepAgreement, KickStepAgreement DEF Next, Halted, LiveInv
<1> QED
  BY <1>1, <1>2

LEMMA AgreementInvariant == Polite /\ Spec => []Agreement
<1>1. Spec => []LiveInv
  BY LiveInit, LiveStep, PTL DEF Spec
<1> QED
  BY <1>1, AgreementInit, AgreementStep, PTL DEF Spec

\* For clients that keep their nicknames, the list of a channel and the list of
\* the user agree on who is in it: what one command looks up by nickname and
\* takes out by pointer is the same user.
THEOREM MembershipStaysAgreed == Polite /\ Spec => []MembershipAgrees
<1>1. Agreement => MembershipAgrees
  BY DEF Agreement
<1> QED
  BY <1>1, AgreementInvariant, PTL

\* For such clients no User is deleted while a list of a channel holds it: the
\* entries of _invitedChannels reach every channel that lists it as invited.
THEOREM DeletedUsersAreReleased == Polite /\ Spec => []UsersAreReleased
<1>1. Agreement => UsersAreReleased
  BY DEF Agreement
<1> QED
  BY <1>1, AgreementInvariant, PTL

\* What a member of a channel says reaches every other member: sendToChannel
\* leaves out the nickname of the sender, and no other member has it.
THEOREM OthersReached == Polite /\ Spec => []OthersAreReached
<1>1. ASSUME Agreement PROVE OthersAreReached
  <2>1. SUFFICES ASSUME NEW c \in Ptrs, NEW u \in Members(chan[c])
                 PROVE  Others(chan[c], u) = Members(chan[c]) \ {u}
    BY DEF OthersAreReached
  <2>2. Members(chan[c]) \subseteq Named /\ Named \subseteq Connected
    BY <1>1 DEF Agreement, Listed, Named
  <2>3. ASSUME NEW v \in Members(chan[c]), nick[v] = nick[u] PROVE v = u
    <3>1. Holds({v}, nick[u])
      BY <2>3 DEF Holds
    <3>2. NickExclusive /\ NicksAreNames
      BY <1>1 DEF Agreement, TypeInv, RegInv
    <3> QED
      BY <2>2, <3>1, <3>2, ByNickname
  <2> QED
    BY <2>3 DEF Others
<1> QED
  BY <1>1, AgreementInvariant, PTL

-----------------------------------------------------------------------------
(* Who leaves, and what that does to a channel *)

\* A client that PART, JOIN 0 or KICK takes out of channels that it is in.
Departs(u, cs) ==
  /\ u \in Named
  /\ \A c \in cs : u \in Members(chan[c])
  /\ Leave(u, cs)

LEMMA PartDeparts ==
  ASSUME Agreement, NEW u \in Users, NEW c \in Ptrs, Part(u, c) PROVE Departs(u, {c})
<1>1. u \in Connected /\ u \in Named
  BY RegisteredNamed DEF Part, Asks
<1>2. u \in Members(chan[c])
  BY <1>1, ChannelAgreement, FindUser DEF Part
<1> QED
  BY <1>1, <1>2 DEF Part, Departs

LEMMA JoinZeroDeparts ==
  ASSUME Agreement, NEW u \in Users, JoinZero(u)
  PROVE  joined[u] \in SUBSET Ptrs /\ Departs(u, joined[u])
<1>1. joined[u] \in SUBSET Ptrs
  BY DEF Agreement, TypeInv, ChannelsTypeOK
<1>2. \A c \in joined[u] : u \in Members(chan[c])
  BY <1>1 DEF Agreement, MembershipAgrees
<1> QED
  BY <1>1, <1>2, RegisteredNamed DEF JoinZero, Asks, Departs

LEMMA KickTargetDeparts ==
  ASSUME Agreement, NEW t \in Users, KickTarget(t)
  PROVE  KickChan \in Ptrs /\ Departs(t, {KickChan})
<1>1. KickChan \in Ptrs
  BY KickParts DEF KickTarget, Agreement
<1>2. t \in Connected
  BY DEF KickTarget, Target, IsNamed, Bearers
<1>3. t \in Members(chan[KickChan])
  BY <1>1, <1>2, ChannelAgreement, FindUser DEF KickTarget
<1>4. t \in Named
  BY <1>1, <1>3, ChannelAgreement DEF Listed
<1> QED
  BY <1>1, <1>3, <1>4 DEF KickTarget, Departs

\* The steps there are, by what they do to channels.
LEMMA KindsOfStep ==
  ASSUME Agreement, [Next]_vars
  PROVE  \/ UNCHANGED <<chan, joined, invites>>
         \/ \E u \in Users, c \in Ptrs, k \in Keys \cup {NoKey} : Join(u, c, k)
         \/ \E u \in Users, c \in Ptrs, n \in Names, k \in Keys \cup {NoKey} :
              Create(u, c, n, k)
         \/ \E u \in Users, c \in Ptrs, t \in Users : Invite(u, t, c)
         \/ \E u \in Users, c \in Ptrs : Mode(u, c)
         \/ \E u \in Users, c \in Ptrs, t \in Topics : Topic(u, c, t)
         \/ \E u \in Named, cs \in SUBSET Ptrs : Departs(u, cs)
         \/ \E u \in Users : Quit(u)
<1> DEFINE P == \/ UNCHANGED <<chan, joined, invites>>
                \/ \E u \in Named, cs \in SUBSET Ptrs : Departs(u, cs)
<1>1. ASSUME NEW u \in Users, Identify(u) \/ QuitFaults(u)
             \/ \E c \in Ptrs, targets \in TargetLists : Kick(u, c, targets)
      PROVE  P
  BY <1>1 DEF Identify, chanVars, QuitFaults, Kick
<1>2. ASSUME NEW u \in Users, NEW c \in Ptrs, Part(u, c) PROVE P
  BY <1>2, PartDeparts DEF Departs
<1>3. ASSUME NEW u \in Users, JoinZero(u) PROVE P
  BY <1>3, JoinZeroDeparts DEF Departs
<1>4. ASSUME KickStep PROVE P
  <2>1. ASSUME NEW t \in Users, KickTarget(t) PROVE P
    BY <2>1, KickTargetDeparts DEF Departs
  <2> QED
    BY <1>4, <2>1 DEF KickStep, KickMiss, KickFreed
<1> HIDE DEF P
<1>5. ASSUME ~ P PROVE \E u \in Users : ClientStep(u)
  BY <1>4, <1>5 DEF Next, Halted, vars, chanVars, P
<1> QED
  BY <1>1, <1>2, <1>3, <1>5 DEF ClientStep, P

\* Empty channels are freed, the others stay as they are.
LEMMA SettledCases ==
  ASSUME NEW cs, NEW c \in Ptrs
  PROVE  /\ ~ IsEmpty(cs[c]) => Settle(cs)[c] = cs[c]
         /\ IsEmpty(cs[c]) => Settle(cs)[c] = Freed
  BY DEF Settle

LEMMA DepartedChannel ==
  ASSUME Agreement, NEW u \in Users, NEW cs \in SUBSET Ptrs, Departs(u, cs), NEW c \in Ptrs
  PROVE  LET r == IF c \in cs THEN RemoveUser(chan[c], u) ELSE chan[c] IN
           /\ chan'[c] = IF IsEmpty(r) THEN Freed ELSE r
           /\ r \in Channel
           /\ Members(r) = IF c \in cs THEN Members(chan[c]) \ {u} ELSE Members(chan[c])
           /\ r.invited = chan[c].invited
<1> DEFINE r == IF c \in cs THEN RemoveUser(chan[c], u) ELSE chan[c]
<1>1. chan'[c] = IF IsEmpty(r) THEN Freed ELSE r
  BY DEF Departs, Leave, Settle
<1>2. u \in Connected
  BY DEF Departs, Named
<1>3. c \in cs => u \notin chan[c].invited
  BY ChannelAgreement DEF Departs, Sound
<1>4. r \in Channel
  BY ChannelAgreement, RemoveUserType
<1>5. c \in cs => /\ Members(RemoveUser(chan[c], u)) = Members(chan[c]) \ {u}
                  /\ RemoveUser(chan[c], u).invited = chan[c].invited \ {u}
  BY <1>2, ChannelAgreement, RemoveUserMembers
<1> QED
  BY <1>1, <1>3, <1>4, <1>5

-----------------------------------------------------------------------------
(* Everybody is counted once *)

LEMMA CountList ==
  ASSUME NEW S, NEW s \in Seq(S), NoRepeats(s)
  PROVE  IsFiniteSet(ToSet(s)) /\ Cardinality(ToSet(s)) = Len(s)
<1>1. Len(s) \in Nat /\ DOMAIN s = 1 .. Len(s)
  OBVIOUS
<1>2. s \in [1 .. Len(s) -> ToSet(s)]
  BY <1>1, SeqDomain DEF ToSet
<1>3. \A a, b \in 1 .. Len(s) : s[a] = s[b] => a = b
  BY <1>1 DEF NoRepeats
<1>4. \A t \in ToSet(s) : \E a \in 1 .. Len(s) : s[a] = t
  BY <1>1 DEF ToSet
<1>5. s \in Bijection(1 .. Len(s), ToSet(s))
  BY <1>2, <1>3, <1>4 DEF Bijection, Injection, Surjection, IsInjective
<1>6. ExistsBijection(1 .. Len(s), ToSet(s))
  BY <1>5 DEF ExistsBijection
<1>7. IsFiniteSet(1 .. Len(s)) /\ Cardinality(1 .. Len(s)) = Len(s)
  BY <1>1, FS_Interval
<1> QED
  BY <1>6, <1>7, FS_Bijection

LEMMA CountMembers ==
  ASSUME NEW ch \in Channel, Sound(ch)
  PROVE  /\ IsFiniteSet(Members(ch))
         /\ TotalUsers(ch) = Cardinality(Members(ch))
         /\ TotalUsers(ch) \in Nat
<1>1. IsFiniteSet(ch.operators) /\ Cardinality(ch.operators) \in Nat
  BY ChannelFields, UsersAssumption, FS_Subset, FS_CardinalityType
<1>2. /\ IsFiniteSet(ToSet(ch.normal))
      /\ Cardinality(ToSet(ch.normal)) = Len(ch.normal)
      /\ Len(ch.normal) \in Nat
  BY ChannelFields, CountList DEF Sound
<1>3. Cardinality(ch.operators \cap ToSet(ch.normal)) = 0
  BY FS_EmptySet DEF Sound
<1>4. /\ IsFiniteSet(Members(ch))
      /\ Cardinality(Members(ch)) = Cardinality(ch.operators) + Len(ch.normal) - 0
  BY <1>1, <1>2, <1>3, FS_Union DEF Members
<1>5. TotalUsers(ch) = Cardinality(ch.operators) + Len(ch.normal)
  BY DEF TotalUsers
<1> QED
  BY <1>1, <1>2, <1>4, <1>5

\* For clients that keep their nicknames, the number that mode l goes by counts
\* every member once: nobody is in both lists of a channel, or twice in one.
THEOREM EverybodyCountedOnce == Polite /\ Spec => []CountedOnce
<1>1. Agreement => CountedOnce
  BY ChannelAgreement, CountMembers DEF CountedOnce
<1> QED
  BY <1>1, AgreementInvariant, PTL

-----------------------------------------------------------------------------
(* Admission *)

\* Only JOIN makes a list _joinedChannels longer.
LEMMA OnlyJoinEnters ==
  ASSUME TypeInv, [Next]_vars, NEW v \in Users, NEW c \in joined'[v] \ joined[v], c \in Ptrs
  PROVE  \E k \in Keys \cup {NoKey} : \/ Join(v, c, k)
                                      \/ \E n \in Names : Create(v, c, n, k)
<1>1. joined \in [Users -> SUBSET Ptrs]
  BY DEF TypeInv, ChannelsTypeOK
<1>2. ~ UNCHANGED joined
  OBVIOUS
<1>3. PICK u \in Users : ClientStep(u) \/ KickStep
  BY <1>2 DEF Next, Halted, vars, chanVars
<1>4. ASSUME NEW w \in Users, NEW cs, Leave(w, cs) PROVE FALSE
  BY <1>1, <1>4 DEF Leave
<1>5. ~ KickStep
  BY <1>2, <1>4 DEF KickStep, KickTarget, KickMiss, KickFreed
<1>6. ~ Quit(u)
  BY <1>1 DEF Quit
<1>7. ~ JoinZero(u) /\ \A d \in Ptrs : ~ Part(u, d)
  BY <1>4 DEF JoinZero, Part
<1>8. \E d \in Ptrs, k \in Keys \cup {NoKey} :
        Join(u, d, k) \/ \E n \in Names : Create(u, d, n, k)
  BY <1>2, <1>3, <1>5, <1>6, <1>7
     DEF ClientStep, Identify, chanVars, Invite, Mode, Topic, Kick, QuitFaults
<1>9. PICK d \in Ptrs, k \in Keys \cup {NoKey} :
        Join(u, d, k) \/ \E n \in Names : Create(u, d, n, k)
  BY <1>8
<1>10. joined' = [joined EXCEPT ![u] = @ \cup {d}]
  BY <1>9 DEF Join, Create
<1>11. u = v /\ d = c
  BY <1>1, <1>10
<1> QED
  BY <1>9, <1>11

LEMMA LimitType == ASSUME NEW ch \in Channel PROVE ch.limit \in Nat
<1>1. ch.limit \in Limits \cup {0}
  BY DEF Channel
<1>2. \A l \in Limits \cup {0} : l \in Nat
  BY LimitsAssumption
<1> QED
  BY <1>1, <1>2

LEMMA AdmissionStep ==
  ASSUME Agreement, Agreement', [Next]_vars, NEW c \in Ptrs, Same(c),
         NEW u \in Members(chan'[c]) \ Members(chan[c])
  PROVE  /\ chan[c].inviteOnly => u \in chan[c].invited
         /\ u \notin chan'[c].invited
         /\ chan[c].limit > 0 => Cardinality(Members(chan'[c])) <= chan[c].limit
<1> DEFINE ch == chan[c]
           r == chan'[c]
<1>1. ch \in Channel /\ r \in Channel /\ Sound(ch) /\ Sound(r)
  BY DEF Agreement, TypeInv, ChannelsTypeOK
<1>2. u \in Users
  BY <1>1, ChannelFields
<1>3. c \in joined'[u] \ joined[u]
  BY <1>2 DEF Agreement, MembershipAgrees
<1>4. PICK k \in Keys \cup {NoKey} : Join(u, c, k)
  BY <1>2, <1>3, OnlyJoinEnters DEF Agreement, Create, Same
<1>5. Admits(ch, u, k) /\ u \in Connected /\ u \in Named
  BY <1>2, <1>4, RegisteredNamed DEF Join, Asks
<1>6. IsInvited(ch, nick[u]) <=> u \in ch.invited
  BY <1>5, ChannelAgreement, FindUser
<1>7. u \notin r.invited
  BY <1>1 DEF Sound
<1>8. Members(r) \subseteq Members(ch) \cup {u}
  <2> SUFFICES ASSUME NEW v \in Members(r), v # u PROVE v \in Members(ch)
    OBVIOUS
  <2>1. v \in Users
    BY <1>1, ChannelFields
  <2>2. joined'[v] = joined[v]
    BY <1>4, <2>1 DEF Join, Agreement, TypeInv, ChannelsTypeOK
  <2> QED
    BY <2>1, <2>2 DEF Agreement, MembershipAgrees
<1>9. Members(r) = Members(ch) \cup {u}
  <2> SUFFICES ASSUME NEW v \in Members(ch) PROVE v \in Members(r)
    BY <1>8
  <2>1. v \in Users
    BY <1>1, ChannelFields
  <2>2. c \in joined'[v]
    BY <1>4, <2>1 DEF Join, Agreement, TypeInv, ChannelsTypeOK, MembershipAgrees
  <2> QED
    BY <2>1, <2>2 DEF Agreement, MembershipAgrees
<1>10. /\ Cardinality(Members(r)) = TotalUsers(ch) + 1
       /\ TotalUsers(ch) \in Nat
  BY <1>1, <1>9, CountMembers, FS_AddElement
<1>11. ch.limit \in Nat
  BY <1>1, LimitType
<1>12. ch.limit > 0 => Cardinality(Members(r)) <= ch.limit
  BY <1>5, <1>10, <1>11 DEF Admits, HasRoom
<1> QED
  BY <1>5, <1>6, <1>7, <1>12 DEF Admits

\* Whoever enters an existing channel was invited where the channel asks for it,
\* by the test of JOIN on nicknames as by pointer, uses the invitation up, and
\* leaves the channel within its limit.
THEOREM AdmissionHolds == Polite /\ Spec => Admission
<1>1. Agreement /\ Agreement' /\ [Next]_vars =>
        [\A c \in Ptrs : Same(c) =>
           \A u \in Members(chan'[c]) \ Members(chan[c]) :
             /\ chan[c].inviteOnly => u \in chan[c].invited
             /\ u \notin chan'[c].invited
             /\ chan[c].limit > 0 => Cardinality(Members(chan'[c])) <= chan[c].limit]_vars
  BY AdmissionStep
<1> QED
  BY <1>1, AgreementInvariant, PTL DEF Spec, Admission

-----------------------------------------------------------------------------
(* Rights of operators *)

LEMMA FreedNotLive == ~ IsLive(Freed)
  BY DEF Freed, IsLive

LEMMA LeaveSettings ==
  ASSUME ChannelsTypeOK, NEW u \in Users, NEW cs \in SUBSET Ptrs, Leave(u, cs),
         NEW c \in Ptrs, Same(c)
  PROVE  SameSettings(chan'[c], chan[c])
<1> DEFINE left == [d \in Ptrs |-> IF d \in cs THEN RemoveUser(chan[d], u) ELSE chan[d]]
<1>1. SameSettings(left[c], chan[c])
  BY RemoveUserKeeps DEF ChannelsTypeOK, SameSettings
<1>2. chan' = Settle(left)
  BY DEF Leave
<1> HIDE DEF left
<1>3. chan'[c] = left[c]
  BY <1>2, FreedNotLive DEF Settle, Same
<1> QED
  BY <1>1, <1>3

LEMMA QuitSettings ==
  ASSUME ChannelsTypeOK, NEW u \in Users, Quit(u), NEW c \in Ptrs, Same(c)
  PROVE  SameSettings(chan'[c], chan[c])
<1> DEFINE s == Settle(Emptied(u))[c]
           r == Released(u)[c]
<1>1. chan'[c] = r
  BY FreedNotLive DEF Quit, Settle, Same
<1>2. /\ s \in Channel
      /\ r \in {s, RemoveUser(s, u), RemoveUser(RemoveUser(s, u), u)}
  BY ReleasedCases
<1>3. s = Freed \/ s = Emptied(u)[c]
  BY DEF Settle
<1> HIDE DEF s, r
<1>4. SameSettings(r, s)
  BY <1>2, RemoveUserType, RemoveUserKeeps DEF SameSettings
<1>5. s # Freed
  BY <1>1, <1>4, FreedNotLive DEF SameSettings, Same, IsLive
<1>6. SameSettings(Emptied(u)[c], chan[c])
  BY RemoveUserKeeps DEF Emptied, ChannelsTypeOK, SameSettings
<1> QED
  BY <1>1, <1>3, <1>4, <1>5, <1>6 DEF SameSettings

\* Every command but MODE and TOPIC leaves the settings of a channel alone.
LEMMA OthersKeepSettings ==
  ASSUME TypeInv, NEW u \in Users, ClientStep(u), NEW c \in Ptrs, Same(c),
         \A d \in Ptrs : ~ Mode(u, d) /\ \A t \in Topics : ~ Topic(u, d, t)
  PROVE  SameSettings(chan'[c], chan[c])
<1> USE DEF TypeInv
<1>1. CASE UNCHANGED chan
  BY <1>1 DEF SameSettings
<1>2. ASSUME NEW d \in Ptrs, NEW k, Join(u, d, k) PROVE SameSettings(chan'[c], chan[c])
  <2>1. chan'[c] = IF c = d THEN AddNormal(chan[c], u) ELSE chan[c]
    BY <1>2 DEF Join, ChannelsTypeOK
  <2> QED
    BY <2>1, AddNormalKeeps DEF ChannelsTypeOK, SameSettings
<1>3. ASSUME NEW d \in Ptrs, NEW n \in Names, NEW k, Create(u, d, n, k)
      PROVE  SameSettings(chan'[c], chan[c])
  <2>1. chan'[c] = chan[c]
    BY <1>3 DEF Create, ChannelsTypeOK, Same
  <2> QED
    BY <2>1 DEF SameSettings
<1>4. ASSUME NEW d \in Ptrs, NEW t \in Users, Invite(u, t, d)
      PROVE  SameSettings(chan'[c], chan[c])
  <2> DEFINE r == [chan[c] EXCEPT !.invited = @ \cup {t}]
  <2>1. SameSettings(r, chan[c])
    BY DEF ChannelsTypeOK, Channel, SameSettings, Modes
  <2>2. chan'[c] = IF c = d THEN r ELSE chan[c]
    BY <1>4 DEF Invite, ChannelsTypeOK
  <2> HIDE DEF r
  <2> QED
    BY <2>1, <2>2 DEF SameSettings
<1>5. CASE JoinZero(u) \/ \E d \in Ptrs : Part(u, d)
  BY <1>5, LeaveSettings DEF JoinZero, Part, ChannelsTypeOK
<1>6. CASE Quit(u)
  BY <1>6, QuitSettings
<1> QED
  BY <1>1, <1>2, <1>3, <1>4, <1>5, <1>6
     DEF ClientStep, Identify, chanVars, Kick, QuitFaults

\* Whoever passes the test of MODE, KICK and TOPIC is an operator.
LEMMA GovernsRules ==
  ASSUME Agreement, NEW u \in Users, NEW c \in Ptrs,
         status[u] = "REGISTERED", Governs(chan[c], u)
  PROVE  u \in RuledBy(c)
  BY RegisteredNamed, ChannelAgreement, FindUser DEF Governs, RuledBy

\* A command on another channel leaves the settings of this one alone.
LEMMA ModeIsOnChannel ==
  ASSUME TypeInv, NEW c \in Ptrs, NEW u \in Users, NEW d \in Ptrs,
         \/ Mode(u, d)
         \/ \E t \in Topics : Topic(u, d, t),
         ~ SameSettings(chan'[c], chan[c])
  PROVE  c = d
<1>1. \E r : chan' = [chan EXCEPT ![d] = r]
  BY DEF Mode, Topic
<1> QED
  BY <1>1 DEF TypeInv, ChannelsTypeOK, SameSettings

LEMMA TopicKeepsModes ==
  ASSUME TypeInv, NEW u \in Users, NEW d \in Ptrs, NEW t \in Topics, Topic(u, d, t)
  PROVE  Modes(chan'[d]) = Modes(chan[d])
<1> DEFINE r == [chan[d] EXCEPT !.topic = t]
<1>1. chan \in [Ptrs -> Channel]
  BY DEF TypeInv, ChannelsTypeOK
<1>2. Modes(r) = Modes(chan[d])
  BY <1>1 DEF Modes, Channel
<1>3. chan' = [chan EXCEPT ![d] = r]
  BY DEF Topic
<1> HIDE DEF r
<1> QED
  BY <1>1, <1>2, <1>3

LEMMA ChangesSettings ==
  ASSUME Agreement, NEW c \in Ptrs, NEW u \in Users, ClientStep(u), Same(c),
         \/ Modes(chan'[c]) # Modes(chan[c])
         \/ chan[c].topicLock /\ chan'[c].topic # chan[c].topic
  PROVE  u \in RuledBy(c)
<1>1. TypeInv /\ ~ SameSettings(chan'[c], chan[c])
  BY DEF Agreement, SameSettings
<1>2. ASSUME NEW d \in Ptrs, Mode(u, d) PROVE u \in RuledBy(c)
  BY <1>1, <1>2, ModeIsOnChannel, GovernsRules DEF Mode, Asks
<1>3. ASSUME NEW d \in Ptrs, NEW t \in Topics, Topic(u, d, t) PROVE u \in RuledBy(c)
  <2>1. c = d
    BY <1>1, <1>3, ModeIsOnChannel
  <2>2. chan[c].topicLock
    BY <1>1, <1>3, <2>1, TopicKeepsModes
  <2> QED
    BY <1>3, <2>1, <2>2, GovernsRules DEF Topic, Asks
<1> QED
  BY <1>1, <1>2, <1>3, OthersKeepSettings

\* A KICK begins with the command KICK.
LEMMA BeginsKick ==
  ASSUME Agreement, NEW c \in Ptrs, NEW u \in Users, ClientStep(u),
         kick = <<>>, kick' # <<>>, Head(kick')[1] = c
  PROVE  u \in RuledBy(c)
<1>1. PICK d \in Ptrs, targets \in TargetLists : Kick(u, d, targets)
  BY DEF ClientStep, Identify, chanVars, Join, Create, Part, JoinZero, Invite, Mode,
         Topic, Quit, QuitFaults
<1>2. Head(kick') = <<d, targets[1]>>
  <2>1. PICK n \in 1 .. MaxTargets : targets \in [1 .. n -> Nicks]
    BY DEF TargetLists
  <2>2. kick' = [i \in DOMAIN targets |-> <<d, targets[i]>>]
    BY <1>1 DEF Kick
  <2>3. n \in Nat /\ 1 \in 1 .. n
    BY <2>1, BoundsAssumption
  <2>4. kick' = [i \in 1 .. n |-> <<d, targets[i]>>]
    BY <2>1, <2>2
  <2>5. \A s : s = [i \in 1 .. n |-> <<d, targets[i]>>] => Head(s) = s[1]
    BY <2>3
  <2> QED
    BY <2>3, <2>4, <2>5
<1>3. d = c
  BY <1>2
<1> QED
  BY <1>1, <1>3, GovernsRules DEF Kick, Asks

LEMMA GovernStep ==
  ASSUME Agreement, NEW c \in Ptrs, Governed(c), NEW u \in Users \ chan[c].operators
  PROVE  ~ ClientStep(u)
<1> SUFFICES ASSUME ClientStep(u) PROVE u \in RuledBy(c)
  BY DEF RuledBy
<1> QED
  BY ChangesSettings, BeginsKick DEF Governed

\* Whoever changes the modes or a locked topic of a channel or begins a KICK is
\* itself an operator of the channel: bearing the nickname of an operator is
\* being the operator.
THEOREM OperatorsGovern == Polite /\ Spec => OnlyOperatorsGovern
<1>1. Agreement /\ [Next]_vars =>
        [\A c \in Ptrs : Governed(c) =>
           \A u \in Users \ chan[c].operators : ~ ClientStep(u)]_vars
  BY GovernStep
<1> QED
  BY <1>1, AgreementInvariant, PTL DEF Spec, OnlyOperatorsGovern

-----------------------------------------------------------------------------
(* Appointments *)

\* A client that is not a member and has no stale entry for the channel: the
\* one entry that it may have takes back its invitation.
LEMMA ReleasedUntouched ==
  ASSUME Agreement, LiveInv, NEW u \in Connected, NEW c \in Ptrs, IsLive(chan[c]),
         u \notin Members(chan[c]), ~ StaleEntry(u, c)
  PROVE  Released(u)[c].operators = chan[c].operators
<1> DEFINE ch == chan[c]
           r == [ch EXCEPT !.invited = ch.invited \ {u}]
           cs == Settle(Emptied(u))
           entries == Forget(Emptied(u))[u]
<1>1. u \in Users /\ ch \in Channel
  BY ChannelAgreement DEF Connected
<1>2. c \notin joined[u] /\ ~ IsEmpty(ch)
  BY <1>1 DEF Agreement, MembershipAgrees, LiveInv, LiveChannels
<1>3. Emptied(u)[c] = ch
  BY <1>2 DEF Emptied
<1>4. cs[c] = ch
  BY <1>2, <1>3, SettledCases
<1>5. entries[c] = invites[u][c] /\ invites[u][c] \in Nat
  BY <1>1, <1>2, <1>3 DEF Forget, Agreement, TypeInv, ChannelsTypeOK
<1>6. Released(u)[c] = CASE entries[c] = 0 -> cs[c]
           [] entries[c] = 1 -> RemoveUser(cs[c], u)
           [] OTHER -> RemoveUser(RemoveUser(cs[c], u), u)
  BY DEF Released
<1> HIDE DEF entries, cs
<1>7. CASE u \notin ch.invited
  BY <1>4, <1>5, <1>6, <1>7 DEF StaleEntry
<1>8. CASE u \in ch.invited
  <2>1. entries[c] \in {0, 1}
    BY <1>5, <1>8 DEF StaleEntry
  <2>2. RemoveUser(ch, u) = r
    BY <1>1, <1>8, ChannelAgreement, FindUser DEF RemoveUser
  <2>3. r.operators = ch.operators
    BY <1>1 DEF Channel
  <2> HIDE DEF r
  <2> QED
    BY <1>4, <1>6, <2>1, <2>2, <2>3
<1> QED
  BY <1>7, <1>8

LEMMA AppointStep ==
  ASSUME Agreement, LiveInv, [Next]_vars, NEW c \in Ptrs, Same(c),
         chan'[c].operators # chan[c].operators, Members(chan[c]) \subseteq Members(chan'[c])
  PROVE  \/ RuledBy(c) # {}
         \/ \E u \in Connected : StaleEntry(u, c) /\ status'[u] = "GONE"
<1> DEFINE P == \/ RuledBy(c) # {}
                \/ \E u \in Connected : StaleEntry(u, c) /\ status'[u] = "GONE"
<1>1. chan \in [Ptrs -> Channel]
  BY DEF Agreement, TypeInv, ChannelsTypeOK
<1>2. ~ UNCHANGED chan
  OBVIOUS
<1>3. ASSUME NEW u \in Users, NEW d \in Ptrs, NEW k, Join(u, d, k) PROVE FALSE
  <2>1. \A inv, seq : [chan[d] EXCEPT !.invited = inv, !.normal = seq].operators
                        = chan[d].operators
    BY <1>1 DEF Channel
  <2> QED
    BY <1>1, <1>3, <2>1 DEF Join, AddNormal
<1>4. ASSUME NEW u \in Users, NEW d \in Ptrs, NEW n, NEW k, Create(u, d, n, k) PROVE FALSE
  BY <1>1, <1>4 DEF Create, Same
<1>5. ASSUME NEW u \in Users, NEW d \in Ptrs, NEW t, Invite(u, t, d) PROVE FALSE
  <2>1. \A inv : [chan[d] EXCEPT !.invited = inv].operators = chan[d].operators
    BY <1>1 DEF Channel
  <2> QED
    BY <1>1, <1>5, <2>1 DEF Invite
<1>6. ASSUME NEW u \in Users, NEW d \in Ptrs, NEW t, Topic(u, d, t) PROVE FALSE
  <2>1. [chan[d] EXCEPT !.topic = t].operators = chan[d].operators
    BY <1>1 DEF Channel
  <2> QED
    BY <1>1, <1>6, <2>1 DEF Topic
<1>7. ASSUME NEW u \in Users, NEW d \in Ptrs, Mode(u, d) PROVE P
  <2>1. c = d
    BY <1>1, <1>7 DEF Mode
  <2> QED
    BY <1>7, <2>1, GovernsRules DEF Mode, Asks
<1>8. ASSUME NEW u \in Named, NEW cs \in SUBSET Ptrs, Departs(u, cs) PROVE FALSE
  <2> DEFINE r == IF c \in cs THEN RemoveUser(chan[c], u) ELSE chan[c]
  <2>1. /\ chan'[c] = r
        /\ Members(r) = IF c \in cs THEN Members(chan[c]) \ {u} ELSE Members(chan[c])
    BY <1>8, DepartedChannel, FreedNotLive DEF Same, Named, Connected
  <2>2. c \in cs
    BY <2>1
  <2> HIDE DEF r
  <2> QED
    BY <1>8, <2>1, <2>2 DEF Departs
<1>9. ASSUME NEW u \in Users, Quit(u) PROVE P
  <2>1. u \in Connected /\ status'[u] = "GONE"
    BY <1>9 DEF Quit, Disconnect, Sends, Agreement, TypeInv, RegInv, TypeOK
  <2>2. chan'[c] = Released(u)[c]
    BY <1>9, SettledCases, FreedNotLive DEF Quit, Same
  <2>3. u \notin Members(chan[c])
    BY <2>1, <2>2, ReleasedAgreement
  <2>4. ~ IsLive(chan[c]) \/ StaleEntry(u, c)
    BY <2>1, <2>2, <2>3, ReleasedUntouched
  <2> QED
    BY <2>1, <2>4 DEF Same
<1> HIDE DEF P
<1>10. P
  BY <1>2, <1>3, <1>4, <1>5, <1>6, <1>7, <1>8, <1>9, KindsOfStep
<1> QED
  BY <1>10 DEF P

\* While nobody leaves a channel, its operators change only under an operator, or
\* when a client ends that holds a stale entry for the channel: KICK, PART and
\* the end of anybody else appoint nobody.
THEOREM OperatorsAppoint == Polite /\ Spec => OnlyOperatorsAppoint
<1>1. Agreement /\ LiveInv /\ [Next]_vars =>
        [\A c \in Ptrs :
           /\ Same(c)
           /\ chan'[c].operators # chan[c].operators
           /\ Members(chan[c]) \subseteq Members(chan'[c])
           => \/ RuledBy(c) # {}
              \/ \E u \in Connected : StaleEntry(u, c) /\ status'[u] = "GONE"]_vars
  BY AppointStep
<1>2. Spec => []LiveInv
  BY LiveInit, LiveStep, PTL DEF Spec
<1> QED
  BY <1>1, <1>2, AgreementInvariant, PTL DEF Spec, OnlyOperatorsAppoint

-----------------------------------------------------------------------------
(* Stale entries *)

\* An address without a channel has no guests either.
NoGuests == \A c \in Ptrs : ~ IsLive(chan[c]) => chan[c].invited = {}

LEMMA FreedHasNoGuests == Freed.invited = {} /\ IsEmpty(Freed)
  BY DEF Freed, IsEmpty

LEMMA SettledNoGuests ==
  ASSUME LiveChannels', NEW cs, chan' = Settle(cs), NEW c \in Ptrs, ~ IsLive(chan'[c])
  PROVE  chan'[c].invited = {}
  BY SettledCases, FreedHasNoGuests DEF LiveChannels

LEMMA NoGuestsStep == NoGuests /\ Agreement /\ LiveInv /\ [Next]_vars => NoGuests'
<1> SUFFICES ASSUME NoGuests, Agreement, LiveInv, [Next]_vars, NEW c \in Ptrs,
                    ~ IsLive(chan'[c])
             PROVE  chan'[c].invited = {}
  BY DEF NoGuests
<1>1. chan \in [Ptrs -> Channel] /\ LiveChannels'
  BY LiveStep DEF LiveInv, TypeInv, ChannelsTypeOK
<1>2. CASE UNCHANGED chan
  BY <1>2 DEF NoGuests
<1>3. ASSUME NEW d \in Ptrs, NEW r, chan' = [chan EXCEPT ![d] = r], IsLive(r)
      PROVE  chan'[c].invited = {}
  BY <1>1, <1>3 DEF NoGuests
<1>4. ASSUME NEW u \in Users, NEW d \in Ptrs, NEW k, Join(u, d, k)
      PROVE  chan'[c].invited = {}
  <2>1. IsLive(AddNormal(chan[d], u))
    BY <1>1, <1>4, AddNormalKeeps DEF Join, SameSettings, IsLive
  <2> QED
    BY <1>3, <1>4, <2>1 DEF Join
<1>5. ASSUME NEW u \in Users, NEW d \in Ptrs, NEW n \in Names,
             NEW k \in Keys \cup {NoKey}, Create(u, d, n, k)
      PROVE  chan'[c].invited = {}
  <2>1. IsLive(NewChannel(n, k, u))
    BY NewChannelKeeps, NamesAssumption DEF IsLive
  <2> QED
    BY <1>3, <1>5, <2>1 DEF Create
<1>6. ASSUME NEW u \in Users, NEW d \in Ptrs, NEW t, Invite(u, t, d)
      PROVE  chan'[c].invited = {}
  <2>1. \A inv : [chan[d] EXCEPT !.invited = inv].name = chan[d].name
    BY <1>1 DEF Channel
  <2> QED
    BY <1>3, <1>6, <2>1 DEF Invite, IsLive
<1>7. ASSUME NEW u \in Users, NEW d \in Ptrs, Mode(u, d) PROVE chan'[c].invited = {}
  <2>1. PICK r \in Channel, ch \in Levels(chan[d]) :
          chan' = [chan EXCEPT ![d] = r] /\ r.name = ch.name
    BY <1>7, ModeChannel DEF LiveInv
  <2>2. ch.name = chan[d].name
    BY <1>1, LevelsKeep DEF SameSettings
  <2> QED
    BY <1>3, <1>7, <2>1, <2>2 DEF Mode, IsLive
<1>8. ASSUME NEW u \in Users, NEW d \in Ptrs, NEW t, Topic(u, d, t)
      PROVE  chan'[c].invited = {}
  <2>1. [chan[d] EXCEPT !.topic = t].name = chan[d].name
    BY <1>1 DEF Channel
  <2> QED
    BY <1>3, <1>8, <2>1 DEF Topic, IsLive
<1>9. ASSUME NEW cs, chan' = Settle(cs) PROVE chan'[c].invited = {}
  BY <1>1, <1>9, SettledNoGuests
<1> QED
  BY <1>2, <1>4, <1>5, <1>6, <1>7, <1>8, <1>9, KindsOfStep DEF Departs, Leave, Quit

LEMMA NoGuestsInvariant == Polite /\ Spec => []NoGuests
<1>1. Init => NoGuests
  BY FreedHasNoGuests DEF Init, NoGuests
<1>2. Spec => []LiveInv
  BY LiveInit, LiveStep, PTL DEF Spec
<1> QED
  BY <1>1, <1>2, NoGuestsStep, AgreementInvariant, PTL DEF Spec

\* The end of a client keeps the guests of a channel that it does not delete.
LEMMA ReleasedGuests ==
  ASSUME Agreement, NEW u \in Connected, NEW c \in Ptrs, ~ IsEmpty(Emptied(u)[c])
  PROVE  /\ Emptied(u)[c].invited \cup {u} = chan[c].invited \cup {u}
         /\ Released(u)[c].invited \cup {u} = chan[c].invited \cup {u}
<1> DEFINE e == Emptied(u)[c]
<1>1. u \in Users /\ ChannelsTypeOK
  BY DEF Connected, Agreement, TypeInv
<1>2. e = IF c \in joined[u] THEN RemoveUser(chan[c], u) ELSE chan[c]
  BY DEF Emptied
<1>3. /\ e \in Channel /\ Sound(e) /\ Listed(e, Named, Connected)
      /\ e.invited \cup {u} = chan[c].invited \cup {u}
  BY <1>1, <1>2, ChannelAgreement, RemoveUserMembers, RemoveUserType
<1>4. e = Settle(Emptied(u))[c]
  BY SettledCases
<1>5. \/ Released(u)[c] = e
      \/ Released(u)[c] = RemoveUser(e, u)
      \/ Released(u)[c] = RemoveUser(RemoveUser(e, u), u)
  BY <1>1, <1>4, ReleasedCases
<1> HIDE DEF e
<1>6. /\ RemoveUser(e, u) \in Channel
      /\ Sound(RemoveUser(e, u)) /\ Listed(RemoveUser(e, u), Named, Connected)
      /\ RemoveUser(e, u).invited \cup {u} = e.invited \cup {u}
  BY <1>1, <1>3, ChannelAgreement, RemoveUserMembers, RemoveUserType
<1>7. RemoveUser(RemoveUser(e, u), u).invited \cup {u} = e.invited \cup {u}
  BY <1>6, ChannelAgreement, RemoveUserMembers
<1> QED
  BY <1>3, <1>5, <1>6, <1>7 DEF e

\* The entry of another client after the end of u.
LEMMA QuitStale ==
  ASSUME Agreement, NEW u \in Users, Quit(u), NEW v \in Users, NEW c \in Ptrs,
         ~ StaleEntry(v, c)
  PROVE  ~ StaleEntry(v, c)'
<1> DEFINE e == Emptied(u)[c]
           r == Released(u)[c]
           deleted == \/ IsEmpty(e) /\ v \in e.invited
                      \/ IsEmpty(r) /\ v \in r.invited
<1>1. u \in Connected
  BY DEF Quit, Disconnect, Sends
<1>2. invites[v][c] \in Nat
  BY DEF Agreement, TypeInv, ChannelsTypeOK
<1>3. invites'[v][c] = CASE v = u -> 0
                         [] v # u /\ deleted /\ invites[v][c] > 0 -> invites[v][c] - 1
                         [] OTHER -> invites[v][c]
  BY DEF Quit, EntriesAfter
<1>4. chan'[c] = IF IsEmpty(r) THEN Freed ELSE r
  BY DEF Quit, Settle
<1>5. /\ e = IF c \in joined[u] THEN RemoveUser(chan[c], u) ELSE chan[c]
      /\ v # u => (v \in e.invited <=> v \in chan[c].invited)
  <2>1. e = IF c \in joined[u] THEN RemoveUser(chan[c], u) ELSE chan[c]
    BY DEF Emptied
  <2> QED
    BY <1>1, <2>1, ChannelAgreement, RemoveUserMembers
<1>6. v # u /\ ~ IsEmpty(e) => (v \in r.invited <=> v \in chan[c].invited)
  BY <1>1, ReleasedGuests
<1>7. v # u /\ v \in chan[c].invited => deleted \/ v \in chan'[c].invited
  BY <1>4, <1>5, <1>6
<1>8. v # u /\ v \in chan[c].invited => invites[v][c] > 0
  BY DEF Agreement, InvitationsAreTracked
<1> HIDE DEF deleted
<1>9. v = u => invites'[v][c] = 0
  BY <1>3
<1>10. v # u => \/ invites'[v][c] = invites[v][c] /\ ~ deleted
                \/ invites'[v][c] = 0 /\ invites[v][c] = 0
                \/ invites'[v][c] = invites[v][c] - 1 /\ invites[v][c] > 0
  BY <1>2, <1>3
<1> QED
  BY <1>2, <1>7, <1>8, <1>9, <1>10 DEF StaleEntry

LEMMA DepartsStale ==
  ASSUME Agreement, NEW u \in Users, NEW cs \in SUBSET Ptrs, Departs(u, cs),
         NEW v \in Users, NEW c \in Ptrs, ~ StaleEntry(v, c)
  PROVE  ~ StaleEntry(v, c)'
<1> DEFINE left == [d \in Ptrs |-> IF d \in cs THEN RemoveUser(chan[d], u) ELSE chan[d]]
           r == left[c]
<1>1. invites[v][c] \in Nat
  BY DEF Agreement, TypeInv, ChannelsTypeOK
<1>2. invites' = Forget(left)
  BY DEF Departs, Leave
<1>3. chan'[c] = (IF IsEmpty(r) THEN Freed ELSE r) /\ r.invited = chan[c].invited
  BY DepartedChannel
<1>4. v \in chan[c].invited => invites[v][c] > 0
  BY DEF Agreement, InvitationsAreTracked
<1> HIDE DEF left
<1>5. invites'[v][c] = IF IsEmpty(r) /\ v \in r.invited /\ invites[v][c] > 0
                         THEN invites[v][c] - 1 ELSE invites[v][c]
  BY <1>2 DEF Forget
<1> QED
  BY <1>1, <1>3, <1>4, <1>5, FreedHasNoGuests DEF StaleEntry

LEMMA StaleStep ==
  ASSUME Agreement, NoGuests, [Next]_vars, NEW v \in Users, NEW c \in Ptrs,
         ~ StaleEntry(v, c), StaleEntry(v, c)'
  PROVE  v \in chan[c].invited /\ c \in joined'[v] \ joined[v]
<1> DEFINE P == v \in chan[c].invited /\ c \in joined'[v] \ joined[v]
<1>1. /\ chan \in [Ptrs -> Channel] /\ joined \in [Users -> SUBSET Ptrs]
      /\ invites \in [Users -> [Ptrs -> Nat]]
  BY DEF Agreement, TypeInv, ChannelsTypeOK
<1>2. ASSUME UNCHANGED invites, chan'[c].invited = chan[c].invited PROVE FALSE
  BY <1>2 DEF StaleEntry
<1>3. ASSUME NEW u \in Users, NEW d \in Ptrs, NEW k, Join(u, d, k) PROVE P
  <2> DEFINE ch == chan[d]
             inv == IF IsInvited(ch, nick[u]) THEN ch.invited \ {u} ELSE ch.invited
             seq == Append(ch.normal, u)
             r == [ch EXCEPT !.invited = inv, !.normal = seq]
  <2>1. chan' = [chan EXCEPT ![d] = r] /\ r.invited = inv
    BY <1>1, <1>3 DEF Join, AddNormal, Channel
  <2>2. UNCHANGED invites /\ joined' = [joined EXCEPT ![u] = @ \cup {d}]
    BY <1>3 DEF Join
  <2>3. v \in chan[c].invited /\ v \notin chan'[c].invited
    BY <1>1, <2>1, <2>2 DEF StaleEntry
  <2>4. d = c /\ u = v
    BY <1>1, <2>1, <2>3
  <2>5. c \notin joined[v]
    BY <2>3, ChannelAgreement DEF Sound, Agreement, MembershipAgrees
  <2> QED
    BY <1>1, <2>2, <2>3, <2>4, <2>5
<1>4. ASSUME NEW u \in Users, NEW d \in Ptrs, NEW n, NEW k, Create(u, d, n, k) PROVE FALSE
  <2>1. chan[d].invited = {} /\ NewChannel(n, k, u).invited = {}
    BY <1>4 DEF Create, NoGuests, NewChannel, Freed
  <2> QED
    BY <1>1, <1>2, <1>4, <2>1 DEF Create
<1>5. ASSUME NEW u \in Users, NEW d \in Ptrs, NEW t \in Users, Invite(u, t, d) PROVE FALSE
  <2> DEFINE inv == chan[d].invited \cup {t}
             r == [chan[d] EXCEPT !.invited = inv]
  <2>1. chan' = [chan EXCEPT ![d] = r] /\ r.invited = inv
    BY <1>1, <1>5 DEF Invite, Channel
  <2>2. t \notin chan[d].invited
    BY <1>5, ChannelAgreement, FindUser DEF Invite, CanBeNamed, IsNamed, Bearers
  <2>3. invites'[v][c] = IF v = t /\ c = d THEN invites[v][c] + 1 ELSE invites[v][c]
    BY <1>1, <1>5 DEF Invite
  <2> HIDE DEF r
  <2> QED
    BY <1>1, <2>1, <2>2, <2>3 DEF StaleEntry
<1>6. ASSUME NEW u \in Users, NEW d \in Ptrs, Mode(u, d) PROVE FALSE
  <2>1. PICK r \in Channel, ch \in Levels(chan[d]) :
          chan' = [chan EXCEPT ![d] = r] /\ r.invited = ch.invited
    BY <1>6, ModeChannel DEF Agreement
  <2>2. ch.invited = chan[d].invited
    BY ChannelAgreement, PromoteMembers, DemoteMembers DEF Levels, Nameable
  <2> QED
    BY <1>1, <1>2, <1>6, <2>1, <2>2 DEF Mode
<1>7. ASSUME NEW u \in Users, NEW d \in Ptrs, NEW t, Topic(u, d, t) PROVE FALSE
  <2>1. [chan[d] EXCEPT !.topic = t].invited = chan[d].invited
    BY <1>1 DEF Channel
  <2> QED
    BY <1>1, <1>2, <1>7, <2>1 DEF Topic
<1>8. ASSUME NEW u \in Named, NEW cs \in SUBSET Ptrs, Departs(u, cs) PROVE FALSE
  BY <1>8, DepartsStale DEF Named, Connected
<1>9. ASSUME NEW u \in Users, Quit(u) PROVE FALSE
  BY <1>9, QuitStale
<1> QED
  BY <1>2, <1>3, <1>4, <1>5, <1>6, <1>7, <1>8, <1>9, KindsOfStep

\* Only the JOIN of an invited client leaves an entry in _invitedChannels that
\* no channel answers: every other command, the deletion of the channel and the
\* end of a client take entry and invitation back together.
THEOREM JoinLeavesStaleEntries == Polite /\ Spec => StaleEntriesComeFromJoin
<1>1. Agreement /\ NoGuests /\ [Next]_vars =>
        [\A u \in Users, c \in Ptrs :
           ~ StaleEntry(u, c) /\ StaleEntry(u, c)'
             => u \in chan[c].invited /\ c \in joined'[u] \ joined[u]]_vars
  BY StaleStep
<1> QED
  BY <1>1, NoGuestsInvariant, AgreementInvariant, PTL DEF Spec, StaleEntriesComeFromJoin

-----------------------------------------------------------------------------
(* Freed memory *)

\* Only the commands that leave all channels, or end a client, can fault.
LEMMA OnlyLeaversFault ==
  ASSUME NEW u \in Users, ClientStep(u), fault' # fault
  PROVE  /\ u \in Connected
         /\ QuitFaults(u) \/ (JoinZero(u) /\ JoinedToFreed(u))
  BY DEF ClientStep, Identify, chanVars, Join, Create, Part, JoinZero, Invite, Mode,
         Topic, Kick, Quit, QuitFaults, Asks, Sends

\* The entries of _joinedChannels lead to channels that list the user, and those live.
LEMMA JoinedLives ==
  ASSUME Agreement, LiveInv, NEW u \in Users PROVE ~ JoinedToFreed(u)
<1> SUFFICES ASSUME NEW c \in joined[u], ~ IsLive(chan[c]) PROVE FALSE
  BY DEF JoinedToFreed
<1>1. c \in Ptrs
  BY DEF Agreement, TypeInv, ChannelsTypeOK
<1>2. u \in Members(chan[c])
  BY <1>1 DEF Agreement, MembershipAgrees
<1>3. chan[c].operators = {} /\ chan[c].normal = <<>>
  BY <1>1 DEF LiveInv, LiveChannels, IsEmpty
<1> QED
  BY <1>2, <1>3 DEF Members, ToSet

\* A user whose entries all belong to invitations ends without a fault: the one
\* entry for a channel leads to the channel that has invited the user, and the
\* user, not being a member, does not take that channel with it.
LEMMA InvitedLives ==
  ASSUME Agreement, LiveInv, NoGuests, NEW u \in Connected, EntryToFreed(u)
  PROVE  \E c \in Ptrs : StaleEntry(u, c)
<1> DEFINE cs == Settle(Emptied(u))
           entries == Forget(Emptied(u))[u]
<1>1. u \in Users
  BY DEF Connected
<1>2. invites \in [Users -> [Ptrs -> Nat]]
  BY DEF Agreement, TypeInv, ChannelsTypeOK
<1>3. PICK c \in Ptrs : \/ entries[c] > 0 /\ ~ IsLive(cs[c])
                        \/ entries[c] > 1 /\ IsEmpty(RemoveUser(cs[c], u))
  BY <1>1, JoinedLives DEF EntryToFreed
<1>4. entries[c] \in Nat /\ entries[c] <= invites[u][c]
  BY <1>1, <1>2 DEF Forget
<1>5. ASSUME u \in chan[c].invited, entries[c] > 0 PROVE IsLive(cs[c])
  <2>1. c \notin joined[u] /\ IsLive(chan[c])
    BY <1>1, <1>5, ChannelAgreement DEF Sound, Agreement, MembershipAgrees, NoGuests
  <2>2. ~ IsEmpty(chan[c])
    BY <2>1 DEF LiveInv, LiveChannels
  <2>3. Emptied(u)[c] = chan[c]
    BY <2>1 DEF Emptied
  <2> QED
    BY <2>1, <2>2, <2>3, SettledCases
<1> HIDE DEF cs, entries
<1> QED
  BY <1>1, <1>2, <1>3, <1>4, <1>5 DEF StaleEntry

LEMMA FaultStep ==
  ASSUME Agreement, LiveInv, NoGuests, NEW u \in Users, ClientStep(u), fault' # fault
  PROVE  \E c \in Ptrs : StaleEntry(u, c)
<1>1. u \in Connected /\ QuitFaults(u)
  BY OnlyLeaversFault, JoinedLives
<1>2. EntryToFreed(u)
  BY <1>1, ReleasedAgreement DEF StillListed, QuitFaults
<1> QED
  BY <1>1, <1>2, InvitedLives

\* A client that leaves its channels or ends reaches freed memory only by an entry
\* that its own JOIN has left in _invitedChannels: no other pointer of a user to a
\* channel outlives the channel.
THEOREM FreedThroughStaleEntries == Polite /\ Spec => FreedOnlyThroughStaleEntries
<1>1. Agreement /\ LiveInv /\ NoGuests /\ [Next]_vars =>
        [\A u \in Users :
           fault' # fault /\ ClientStep(u) => \E c \in Ptrs : StaleEntry(u, c)]_vars
  BY FaultStep
<1>2. Spec => []LiveInv
  BY LiveInit, LiveStep, PTL DEF Spec
<1> QED
  BY <1>1, <1>2, NoGuestsInvariant, AgreementInvariant, PTL
     DEF Spec, FreedOnlyThroughStaleEntries

-----------------------------------------------------------------------------
(* Where nobody is invited *)

NoEntries == \A u \in Users, c \in Ptrs : invites[u][c] = 0

LEMMA NothingForgotten ==
  ASSUME ChannelsTypeOK, NoEntries, NEW cs, NEW u \in Users, NEW c \in Ptrs
  PROVE  Forget(cs)[u][c] = 0
  BY DEF Forget, NoEntries

\* A departure leaves everybody without an entry.
LEMMA LeaveNoEntries ==
  ASSUME ChannelsTypeOK, NoEntries, NEW u, NEW cs, Leave(u, cs) PROVE NoEntries'
  BY NothingForgotten DEF Leave, NoEntries

\* Nobody invites, and nobody has ever been invited.
Uninviting == Polite /\ "INVITE" \notin Commands

UninvitedInv == Uninviting /\ NoEntries

LEMMA UninvitedStep ==
  UninvitedInv /\ Agreement /\ [Next]_vars => UninvitedInv'
<1> SUFFICES ASSUME Uninviting, Agreement, NoEntries, [Next]_vars PROVE NoEntries'
  BY DEF UninvitedInv, Uninviting, Polite
<1>1. ChannelsTypeOK
  BY DEF Agreement, TypeInv
<1>2. CASE UNCHANGED invites
  BY <1>2 DEF NoEntries
<1>3. ASSUME NEW u, NEW cs, Leave(u, cs) PROVE NoEntries'
  BY <1>1, <1>3, LeaveNoEntries
<1>4. ASSUME NEW u \in Users, Quit(u) PROVE NoEntries'
  <2>1. \A v \in Users, c \in Ptrs : EntriesAfter(u)[v][c] = 0
    BY DEF EntriesAfter, NoEntries
  <2> QED
    BY <1>4, <2>1 DEF Quit, NoEntries
<1>5. \A u \in Users, c \in Ptrs, t \in Users : ~ Invite(u, t, c)
  BY DEF Invite, Asks, Sends, Uninviting
<1> QED
  BY <1>2, <1>3, <1>4, <1>5, KindsOfStep DEF Join, Create, Mode, Topic, Departs

-----------------------------------------------------------------------------
(* The rooms that channels make up *)

\* The rooms that channels cs make up.
RoomOperators(cs) ==
  [n \in Names |-> UNION {cs[c].operators : c \in {d \in Ptrs : cs[d].name = n}}]

RoomOthers(cs) ==
  [n \in Names |-> UNION {ToSet(cs[c].normal) : c \in {d \in Ptrs : cs[d].name = n}}]

Unique(cs) ==
  \A c, d \in Ptrs : cs[c].name = cs[d].name /\ IsLive(cs[c]) => c = d

LEMMA RoomOfChannel ==
  ASSUME NEW cs \in [Ptrs -> Channel], Unique(cs), NEW c \in Ptrs, IsLive(cs[c])
  PROVE  /\ cs[c].name \in Names
         /\ RoomOperators(cs)[cs[c].name] = cs[c].operators
         /\ RoomOthers(cs)[cs[c].name] = ToSet(cs[c].normal)
<1>1. cs[c].name \in Names
  BY DEF Channel, IsLive
<1>2. {d \in Ptrs : cs[d].name = cs[c].name} = {c}
  BY DEF Unique
<1> QED
  BY <1>1, <1>2 DEF RoomOperators, RoomOthers

LEMMA RoomOfNobody ==
  ASSUME NEW cs, NEW n \in Names, \A c \in Ptrs : cs[c].name # n
  PROVE  RoomOperators(cs)[n] = {} /\ RoomOthers(cs)[n] = {}
<1>1. {d \in Ptrs : cs[d].name = n} = {}
  OBVIOUS
<1> QED
  BY <1>1 DEF RoomOperators, RoomOthers

\* A room is as its channel is, whatever becomes of the others.
LEMMA SameRoom ==
  ASSUME NEW cs, NEW ds, NEW n \in Names,
         \A c \in Ptrs : cs[c].name = n \/ ds[c].name = n =>
           /\ ds[c].name = cs[c].name
           /\ ds[c].operators = cs[c].operators
           /\ ToSet(ds[c].normal) = ToSet(cs[c].normal)
  PROVE  /\ RoomOperators(ds)[n] = RoomOperators(cs)[n]
         /\ RoomOthers(ds)[n] = RoomOthers(cs)[n]
<1>1. {d \in Ptrs : cs[d].name = n} = {d \in Ptrs : ds[d].name = n}
  OBVIOUS
<1> DEFINE D == {d \in Ptrs : cs[d].name = n}
<1>2. /\ UNION {ds[c].operators : c \in D} = UNION {cs[c].operators : c \in D}
      /\ UNION {ToSet(ds[c].normal) : c \in D} = UNION {ToSet(cs[c].normal) : c \in D}
  OBVIOUS
<1> QED
  BY <1>1, <1>2 DEF RoomOperators, RoomOthers

\* One channel becomes r, the others stay.
Becomes(cs, ds, c, r) ==
  /\ ds \in [Ptrs -> Channel]
  /\ ds[c] = r
  /\ \A d \in Ptrs \ {c} : ds[d] = cs[d]

\* It keeps its name.
LEMMA OneRoom ==
  ASSUME NEW cs \in [Ptrs -> Channel], Unique(cs), NEW c \in Ptrs, IsLive(cs[c]),
         NEW r \in Channel, r.name = cs[c].name, NEW ds, Becomes(cs, ds, c, r)
  PROVE  /\ RoomOperators(ds) = [RoomOperators(cs) EXCEPT ![cs[c].name] = r.operators]
         /\ RoomOthers(ds) = [RoomOthers(cs) EXCEPT ![cs[c].name] = ToSet(r.normal)]
<1> DEFINE n == cs[c].name
<1>1. ds \in [Ptrs -> Channel] /\ ds[c] = r /\ \A d \in Ptrs \ {c} : ds[d] = cs[d]
  BY DEF Becomes
<1>2. Unique(ds) /\ IsLive(ds[c])
  BY <1>1 DEF Unique, IsLive
<1>3. n \in Names /\ RoomOperators(ds)[n] = r.operators /\ RoomOthers(ds)[n] = ToSet(r.normal)
  BY <1>1, <1>2, RoomOfChannel
<1>4. ASSUME NEW m \in Names \ {n}
      PROVE  /\ RoomOperators(ds)[m] = RoomOperators(cs)[m]
             /\ RoomOthers(ds)[m] = RoomOthers(cs)[m]
  <2>1. \A d \in Ptrs : cs[d].name = m \/ ds[d].name = m => ds[d] = cs[d]
    BY <1>1
  <2>2. \A d \in Ptrs : cs[d].name = m \/ ds[d].name = m =>
          /\ ds[d].name = cs[d].name
          /\ ds[d].operators = cs[d].operators
          /\ ToSet(ds[d].normal) = ToSet(cs[d].normal)
    BY <2>1
  <2> QED
    BY <2>2, SameRoom
<1>5. RoomOperators(ds) = [RoomOperators(cs) EXCEPT ![n] = r.operators]
  <2>1. /\ RoomOperators(ds) = [m \in Names |-> RoomOperators(ds)[m]]
        /\ RoomOperators(cs) = [m \in Names |-> RoomOperators(cs)[m]]
    BY DEF RoomOperators
  <2> QED
    BY <1>3, <1>4, <2>1
<1>6. RoomOthers(ds) = [RoomOthers(cs) EXCEPT ![n] = ToSet(r.normal)]
  <2>1. /\ RoomOthers(ds) = [m \in Names |-> RoomOthers(ds)[m]]
        /\ RoomOthers(cs) = [m \in Names |-> RoomOthers(cs)[m]]
    BY DEF RoomOthers
  <2> QED
    BY <1>3, <1>4, <2>1
<1> QED
  BY <1>5, <1>6

\* The actions of Rooms, read on the channels.
LEMMA ToEnter ==
  ASSUME NEW u, NEW n,
         RoomOperators(chan)[n] \cup RoomOthers(chan)[n] # {},
         u \notin RoomOperators(chan)[n] \cup RoomOthers(chan)[n],
         RoomOthers(chan') = [RoomOthers(chan) EXCEPT ![n] = @ \cup {u}],
         RoomOperators(chan') = RoomOperators(chan)
  PROVE  Rm!Enter(u, n)
  BY DEF Rm!Enter, Rm!In, RoomOperators, RoomOthers, WithName

LEMMA ToOpen ==
  ASSUME NEW u, NEW n,
         RoomOperators(chan)[n] \cup RoomOthers(chan)[n] = {},
         RoomOperators(chan') = [RoomOperators(chan) EXCEPT ![n] = {u}],
         RoomOthers(chan') = RoomOthers(chan)
  PROVE  Rm!Open(u, n)
  BY DEF Rm!Open, Rm!In, RoomOperators, RoomOthers, WithName

LEMMA ToAppoint ==
  ASSUME NEW n, NEW u \in RoomOthers(chan)[n], RoomOperators(chan)[n] # {},
         RoomOperators(chan') = [RoomOperators(chan) EXCEPT ![n] = @ \cup {u}],
         RoomOthers(chan') = [RoomOthers(chan) EXCEPT ![n] = @ \ {u}]
  PROVE  Rm!Appoint(n)
  BY DEF Rm!Appoint, RoomOperators, RoomOthers, WithName

LEMMA ToDismiss ==
  ASSUME NEW n, NEW u \in RoomOperators(chan)[n],
         RoomOperators(chan') = [RoomOperators(chan) EXCEPT ![n] = @ \ {u}],
         RoomOthers(chan') = [RoomOthers(chan) EXCEPT ![n] = @ \cup {u}]
  PROVE  Rm!Dismiss(n)
  BY DEF Rm!Dismiss, RoomOperators, RoomOthers, WithName

LEMMA ToStutter ==
  ASSUME RoomOperators(chan') = RoomOperators(chan), RoomOthers(chan') = RoomOthers(chan)
  PROVE  UNCHANGED Rm!vars
  BY DEF Rm!vars, RoomOperators, RoomOthers, WithName

\* The heirs that a channel with these members may choose from.
HeirSets(ops, oth) == IF ops = {} /\ oth # {} THEN {{h} : h \in oth} ELSE {{}}

LEMMA InheritRoom ==
  ASSUME NEW ch \in Channel, NoRepeats(ch.normal)
  PROVE  \E heir \in HeirSets(ch.operators, ToSet(ch.normal)) :
           /\ Inherit(ch).operators = ch.operators \cup heir
           /\ ToSet(Inherit(ch).normal) = ToSet(ch.normal) \ heir
<1> DEFINE h == Head(ch.normal)
           seq == Without(ch.normal, h)
           ops == ch.operators \cup {h}
           r == [ch EXCEPT !.normal = seq, !.operators = ops]
<1>1. ch.normal = <<>> <=> ToSet(ch.normal) = {}
  BY ChannelFields, EmptyElements
<1>2. CASE ch.operators = {} /\ ch.normal # <<>>
  <2>1. Inherit(ch) = r
    BY <1>2 DEF Inherit, Promote, IsOperator, Holds
  <2>2. h \in ToSet(ch.normal)
    BY <1>2, ChannelFields, HeadElement
  <2> HIDE DEF h
  <2>3. ToSet(seq) = ToSet(ch.normal) \ {h}
    BY ChannelFields, WithoutElements
  <2>4. r.operators = ops /\ r.normal = seq
    BY DEF Channel
  <2>5. {h} \in HeirSets(ch.operators, ToSet(ch.normal))
    BY <1>2, <2>2 DEF HeirSets
  <2> HIDE DEF r, seq
  <2> QED
    BY <2>1, <2>3, <2>4, <2>5
<1>3. CASE ~ (ch.operators = {} /\ ch.normal # <<>>)
  <2>1. Inherit(ch) = ch
    BY <1>3 DEF Inherit
  <2>2. {} \in HeirSets(ch.operators, ToSet(ch.normal))
    BY <1>1, <1>3 DEF HeirSets
  <2> QED
    BY <2>1, <2>2
<1> QED
  BY <1>2, <1>3

LEMMA RemoveUserRoom ==
  ASSUME NickExclusive, NicksAreNames, NEW u \in Connected,
         NEW ch \in Channel, Sound(ch), Listed(ch, Named, Connected),
         ch.invited = {}, u \in Members(ch)
  PROVE  \E heir \in HeirSets(ch.operators \ {u}, ToSet(ch.normal) \ {u}) :
           /\ RemoveUser(ch, u).operators = (ch.operators \ {u}) \cup heir
           /\ ToSet(RemoveUser(ch, u).normal) = ToSet(ch.normal) \ ({u} \cup heir)
<1> DEFINE seq == Without(ch.normal, u)
           ops == ch.operators \ {u}
           o == [ch EXCEPT !.operators = ops]
           n == [ch EXCEPT !.normal = seq]
           r == IF u \in ch.operators THEN o ELSE n
<1>1. RemoveUser(ch, u) = Inherit(r)
  <2>1. ~ IsInvited(ch, nick[u])
    BY DEF IsInvited, Holds
  <2>2. IsOperator(ch, nick[u]) <=> u \in ch.operators
    BY FindUser
  <2> QED
    BY <2>1, <2>2 DEF RemoveUser
<1>2. ToSet(seq) = ToSet(ch.normal) \ {u} /\ NoRepeats(seq) /\ seq \in Seq(Users)
  BY ChannelFields, WithoutElements, WithoutType DEF Sound
<1>3. ops \in SUBSET Users
  BY ChannelFields
<1> HIDE DEF seq, ops
<1>4. o \in Channel /\ n \in Channel
  BY <1>2, <1>3, ChannelFields, WithLists
<1>5. /\ o.operators = ops /\ o.normal = ch.normal
      /\ n.operators = ch.operators /\ n.normal = seq
  BY DEF Channel
<1> HIDE DEF o, n
<1>6. /\ r \in Channel
      /\ r.operators = ch.operators \ {u}
      /\ ToSet(r.normal) = ToSet(ch.normal) \ {u}
      /\ NoRepeats(r.normal)
  BY <1>2, <1>4, <1>5 DEF Sound, Members, ops
<1> HIDE DEF r
<1>7. PICK heir \in HeirSets(r.operators, ToSet(r.normal)) :
        /\ Inherit(r).operators = r.operators \cup heir
        /\ ToSet(Inherit(r).normal) = ToSet(r.normal) \ heir
  BY <1>6, InheritRoom
<1> QED
  BY <1>1, <1>6, <1>7

LEMMA ToLeave ==
  ASSUME NEW u, NEW rooms, NEW heir \in [rooms -> SUBSET Users],
         \A n \in rooms :
           /\ u \in RoomOperators(chan)[n] \cup RoomOthers(chan)[n]
           /\ heir[n] \in HeirSets(RoomOperators(chan)[n] \ {u}, RoomOthers(chan)[n] \ {u}),
         RoomOperators(chan') = [n \in Names |->
           IF n \in rooms THEN (RoomOperators(chan)[n] \ {u}) \cup heir[n]
                          ELSE RoomOperators(chan)[n]],
         RoomOthers(chan') = [n \in Names |->
           IF n \in rooms THEN RoomOthers(chan)[n] \ ({u} \cup heir[n])
                          ELSE RoomOthers(chan)[n]]
  PROVE  Rm!Leave(u, rooms)
  BY DEF Rm!Leave, Rm!Heirs, Rm!In, HeirSets, RoomOperators, RoomOthers, WithName

\* The names of the channels that are left.
NamesOf(cs) == {chan[c].name : c \in cs}

LEMMA RoomsLose ==
  ASSUME Agreement, LiveInv, LiveInv', NEW u \in Connected, NEW cs \in SUBSET Ptrs,
         \A c \in Ptrs : chan[c].invited = {},
         \A c \in cs : u \in Members(chan[c]),
         chan' = Settle([c \in Ptrs |-> IF c \in cs THEN RemoveUser(chan[c], u) ELSE chan[c]])
  PROVE  \E rooms \in SUBSET Names : Rm!Leave(u, rooms)
<1> DEFINE O == RoomOperators(chan)
           T == RoomOthers(chan)
           O2 == RoomOperators(chan')
           T2 == RoomOthers(chan')
<1>1. /\ chan \in [Ptrs -> Channel] /\ Unique(chan)
      /\ chan' \in [Ptrs -> Channel] /\ Unique(chan')
  BY DEF LiveInv, TypeInv, ChannelsTypeOK, LiveChannels, Unique
<1>2. ASSUME NEW c \in cs
      PROVE  /\ IsLive(chan[c]) /\ chan[c].name \in Names
             /\ u \in O[chan[c].name] \cup T[chan[c].name]
             /\ \E heir \in HeirSets(O[chan[c].name] \ {u}, T[chan[c].name] \ {u}) :
                  /\ O2[chan[c].name] = (O[chan[c].name] \ {u}) \cup heir
                  /\ T2[chan[c].name] = T[chan[c].name] \ ({u} \cup heir)
  <2> DEFINE ch == chan[c]
             r == RemoveUser(ch, u)
             n == ch.name
  <2>1. IsLive(ch)
    BY <1>2, EmptyMembers, ChannelAgreement DEF LiveInv, LiveChannels
  <2>2. n \in Names /\ O[n] = ch.operators /\ T[n] = ToSet(ch.normal)
    BY <1>1, <2>1, RoomOfChannel
  <2>3. PICK heir \in HeirSets(O[n] \ {u}, T[n] \ {u}) :
          /\ r.operators = (O[n] \ {u}) \cup heir
          /\ ToSet(r.normal) = T[n] \ ({u} \cup heir)
    BY <2>2, ChannelAgreement, RemoveUserRoom
  <2>4. chan'[c] = IF IsEmpty(r) THEN Freed ELSE r
    BY DEF Settle
  <2>5. r.name = n /\ r \in Channel
    BY ChannelAgreement, RemoveUserType, RemoveUserKeeps DEF SameSettings, Connected
  <2>6. O2[n] = r.operators /\ T2[n] = ToSet(r.normal)
    <3>1. CASE ~ IsEmpty(r)
      BY <1>1, <2>1, <2>4, <2>5, <3>1, RoomOfChannel DEF IsLive
    <3>2. CASE IsEmpty(r)
      <4>1. r.operators = {} /\ ToSet(r.normal) = {}
        BY <2>5, <3>2, ChannelFields, EmptyElements DEF IsEmpty
      <4>2. \A d \in Ptrs : chan'[d].name = chan[d].name \/ chan'[d] = Freed
        BY RemoveUserKeeps, ChannelAgreement DEF Settle, SameSettings, Connected
      <4>3. \A d \in Ptrs : chan'[d].name # n
        BY <1>1, <2>1, <2>2, <2>4, <3>2, <4>2, FreedNotLive, NamesAssumption
           DEF Unique, IsLive
      <4> QED
        BY <2>2, <4>1, <4>3, RoomOfNobody
    <3> QED
      BY <3>1, <3>2
  <2>7. u \in O[n] \cup T[n]
    BY <2>2 DEF Members
  <2> QED
    BY <2>1, <2>2, <2>3, <2>6, <2>7
<1>3. ASSUME NEW n \in Names \ NamesOf(cs) PROVE O2[n] = O[n] /\ T2[n] = T[n]
  <2> SUFFICES ASSUME NEW c \in Ptrs, chan[c].name = n \/ chan'[c].name = n
               PROVE  chan'[c] = chan[c]
    <3>1. ASSUME \A c \in Ptrs : chan[c].name = n \/ chan'[c].name = n =>
                   chan'[c] = chan[c]
          PROVE  /\ RoomOperators(chan')[n] = RoomOperators(chan)[n]
                 /\ RoomOthers(chan')[n] = RoomOthers(chan)[n]
      <4>1. \A c \in Ptrs : chan[c].name = n \/ chan'[c].name = n =>
              /\ chan'[c].name = chan[c].name
              /\ chan'[c].operators = chan[c].operators
              /\ ToSet(chan'[c].normal) = ToSet(chan[c].normal)
        BY <3>1
      <4> QED
        BY <4>1, SameRoom
    <3> QED
      BY <3>1
  <2> DEFINE r == IF c \in cs THEN RemoveUser(chan[c], u) ELSE chan[c]
  <2>1. chan'[c] = IF IsEmpty(r) THEN Freed ELSE r
    BY DEF Settle
  <2>2. r.name = chan[c].name
    BY ChannelAgreement, RemoveUserKeeps DEF SameSettings, Connected
  <2>3. chan[c].name = n
    BY <2>1, <2>2, FreedNotLive, NamesAssumption DEF IsLive
  <2>4. c \notin cs
    BY <2>3 DEF NamesOf
  <2>5. ~ IsEmpty(chan[c])
    BY <2>3, NamesAssumption DEF LiveInv, LiveChannels, IsLive
  <2> QED
    BY <2>1, <2>4, <2>5
<1>4. NamesOf(cs) \in SUBSET Names
  BY <1>2 DEF NamesOf
<1> HIDE DEF O, T, O2, T2
<1>5. \A n \in NamesOf(cs) :
        /\ u \in O[n] \cup T[n]
        /\ \E heir \in HeirSets(O[n] \ {u}, T[n] \ {u}) :
             O2[n] = (O[n] \ {u}) \cup heir /\ T2[n] = T[n] \ ({u} \cup heir)
  BY <1>2 DEF NamesOf
<1> DEFINE heirOf(n) == CHOOSE h \in HeirSets(O[n] \ {u}, T[n] \ {u}) :
             O2[n] = (O[n] \ {u}) \cup h /\ T2[n] = T[n] \ ({u} \cup h)
           heir == [n \in NamesOf(cs) |-> heirOf(n)]
<1>6. \A n \in NamesOf(cs) :
        /\ heir[n] \in HeirSets(O[n] \ {u}, T[n] \ {u})
        /\ O2[n] = (O[n] \ {u}) \cup heir[n]
        /\ T2[n] = T[n] \ ({u} \cup heir[n])
  BY <1>5
<1> HIDE DEF heirOf
<1>7. heir = [n \in NamesOf(cs) |-> heir[n]]
  OBVIOUS
<1> HIDE DEF heir
<1>8. \A n \in Names : T[n] \subseteq Users /\ O[n] \subseteq Users
  BY <1>1, ChannelFields DEF O, T, RoomOperators, RoomOthers
<1>9. heir \in [NamesOf(cs) -> SUBSET Users]
  BY <1>4, <1>6, <1>7, <1>8 DEF HeirSets
<1>10. O2 = [n \in Names |-> IF n \in NamesOf(cs) THEN (O[n] \ {u}) \cup heir[n] ELSE O[n]]
  <2>1. O2 = [n \in Names |-> O2[n]]
    BY DEF O2, RoomOperators
  <2> QED
    BY <1>3, <1>6, <2>1
<1>11. T2 = [n \in Names |-> IF n \in NamesOf(cs) THEN T[n] \ ({u} \cup heir[n]) ELSE T[n]]
  <2>1. T2 = [n \in Names |-> T2[n]]
    BY DEF T2, RoomOthers
  <2> QED
    BY <1>3, <1>6, <2>1
<1>12. PICK rooms : rooms = NamesOf(cs)
  OBVIOUS
<1>13. Rm!Leave(u, rooms)
  BY <1>5, <1>6, <1>9, <1>10, <1>11, <1>12, ToLeave DEF O, T, O2, T2
<1> QED
  BY <1>4, <1>12, <1>13

\* A client that ends where nobody was ever invited leaves its channels as if it
\* had sent JOIN 0.
LEMMA QuitLeaves ==
  ASSUME Agreement, NoEntries, NEW u \in Users, Quit(u)
  PROVE  /\ u \in Connected
         /\ joined[u] \in SUBSET Ptrs
         /\ \A c \in joined[u] : u \in Members(chan[c])
         /\ chan' = Settle([c \in Ptrs |->
                      IF c \in joined[u] THEN RemoveUser(chan[c], u) ELSE chan[c]])
<1> DEFINE cs == Settle(Emptied(u))
<1>1. u \in Connected /\ ChannelsTypeOK
  BY DEF Quit, Disconnect, Sends, Agreement, TypeInv
<1>2. joined[u] \in SUBSET Ptrs /\ \A c \in joined[u] : u \in Members(chan[c])
  BY <1>1 DEF ChannelsTypeOK, Agreement, MembershipAgrees
<1>3. \A c \in Ptrs : Forget(Emptied(u))[u][c] = 0
  BY <1>1, NothingForgotten
<1>4. Released(u) = [c \in Ptrs |-> cs[c]]
  BY <1>3 DEF Released
<1>5. Settle(Released(u)) = cs
  BY <1>4, FreedHasNoGuests DEF Settle
<1>6. chan' = Settle(Emptied(u))
  BY <1>5 DEF Quit
<1> QED
  BY <1>1, <1>2, <1>6 DEF Emptied

LEMMA Uninvited ==
  ASSUME Agreement, NoEntries, NEW c \in Ptrs PROVE chan[c].invited = {}
<1>1. chan[c].invited \subseteq Users
  BY ChannelAgreement, ChannelFields
<1>2. \A u \in Users : u \notin chan[c].invited
  BY DEF Agreement, InvitationsAreTracked, NoEntries
<1> QED
  BY <1>1, <1>2

\* The rooms after a step of one channel.
LEMMA ItBecomes ==
  ASSUME LiveInv, NEW c \in Ptrs, NEW r \in Channel, chan' = [chan EXCEPT ![c] = r]
  PROVE  Becomes(chan, chan', c, r)
  BY DEF Becomes, LiveInv, TypeInv, ChannelsTypeOK

LEMMA ChannelRoom ==
  ASSUME LiveInv, NEW c \in Ptrs, IsLive(chan[c]), NEW r \in Channel,
         r.name = chan[c].name, Becomes(chan, chan', c, r)
  PROVE  LET n == chan[c].name IN
           /\ n \in Names
           /\ RoomOperators(chan)[n] = chan[c].operators
           /\ RoomOthers(chan)[n] = ToSet(chan[c].normal)
           /\ RoomOperators(chan') = [RoomOperators(chan) EXCEPT ![n] = r.operators]
           /\ RoomOthers(chan') = [RoomOthers(chan) EXCEPT ![n] = ToSet(r.normal)]
<1>1. chan \in [Ptrs -> Channel] /\ Unique(chan)
  BY DEF LiveInv, TypeInv, ChannelsTypeOK, LiveChannels, Unique
<1> DEFINE n == chan[c].name
<1>2. n \in Names /\ RoomOperators(chan)[n] = chan[c].operators
      /\ RoomOthers(chan)[n] = ToSet(chan[c].normal)
  BY <1>1, RoomOfChannel
<1>3. /\ RoomOperators(chan') = [RoomOperators(chan) EXCEPT ![n] = r.operators]
      /\ RoomOthers(chan') = [RoomOthers(chan) EXCEPT ![n] = ToSet(r.normal)]
  BY <1>1, OneRoom
<1> QED
  BY <1>2, <1>3

\* A step that leaves the lists alone.
LEMMA SameListsRoom ==
  ASSUME LiveInv, NEW c \in Ptrs, IsLive(chan[c]), NEW r \in Channel,
         r.name = chan[c].name, Becomes(chan, chan', c, r),
         r.operators = chan[c].operators, ToSet(r.normal) = ToSet(chan[c].normal)
  PROVE  UNCHANGED Rm!vars
<1> DEFINE n == chan[c].name
<1>1. /\ RoomOperators(chan') = [RoomOperators(chan) EXCEPT ![n] = RoomOperators(chan)[n]]
      /\ RoomOthers(chan') = [RoomOthers(chan) EXCEPT ![n] = RoomOthers(chan)[n]]
  <2>1. /\ RoomOperators(chan)[n] = chan[c].operators
        /\ RoomOthers(chan)[n] = ToSet(chan[c].normal)
        /\ RoomOperators(chan') = [RoomOperators(chan) EXCEPT ![n] = r.operators]
        /\ RoomOthers(chan') = [RoomOthers(chan) EXCEPT ![n] = ToSet(r.normal)]
    BY ChannelRoom
  <2> QED
    BY <2>1
<1>2. /\ RoomOperators(chan) = [m \in Names |-> RoomOperators(chan)[m]]
      /\ RoomOthers(chan) = [m \in Names |-> RoomOthers(chan)[m]]
  BY DEF RoomOperators, RoomOthers
<1>3. RoomOperators(chan') = RoomOperators(chan) /\ RoomOthers(chan') = RoomOthers(chan)
  BY <1>1, <1>2
<1> QED
  BY <1>3, ToStutter

LEMMA JoinRoom ==
  ASSUME Agreement, LiveInv, NEW u \in Users, NEW c \in Ptrs, NEW k, Join(u, c, k)
  PROVE  chan[c].name \in Names /\ Rm!Enter(u, chan[c].name)
<1> DEFINE ch == chan[c]
           inv == IF IsInvited(ch, nick[u]) THEN ch.invited \ {u} ELSE ch.invited
           seq == Append(ch.normal, u)
           r == [ch EXCEPT !.invited = inv, !.normal = seq]
           n == ch.name
<1>1. ch \in Channel
  BY ChannelAgreement
<1>2. AddNormal(ch, u) = r
  BY DEF AddNormal
<1>3. r \in Channel /\ r.name = n
  BY <1>1, <1>2, AddNormalType, AddNormalKeeps DEF SameSettings
<1>4. ToSet(seq) = ToSet(ch.normal) \cup {u}
  BY <1>1, ChannelFields, AppendElements
<1>5. r.operators = ch.operators /\ r.normal = seq
  BY <1>1 DEF Channel
<1>6. IsLive(ch) /\ Becomes(chan, chan', c, r)
  BY <1>2, <1>3, ItBecomes DEF Join
<1>7. u \notin Members(ch) /\ Members(ch) # {}
  BY <1>1, <1>6, RegisteredNamed, ChannelAgreement, FindUser, EmptyMembers
     DEF Join, Asks, Admits, LiveInv, LiveChannels
<1> HIDE DEF r, seq
<1>8. /\ n \in Names
      /\ RoomOperators(chan)[n] \cup RoomOthers(chan)[n] = Members(ch)
      /\ RoomOperators(chan') = [RoomOperators(chan) EXCEPT ![n] = @]
      /\ RoomOthers(chan') = [RoomOthers(chan) EXCEPT ![n] = @ \cup {u}]
  <2>1. /\ n \in Names
        /\ RoomOperators(chan)[n] = ch.operators
        /\ RoomOthers(chan)[n] = ToSet(ch.normal)
        /\ RoomOperators(chan') = [RoomOperators(chan) EXCEPT ![n] = r.operators]
        /\ RoomOthers(chan') = [RoomOthers(chan) EXCEPT ![n] = ToSet(r.normal)]
    BY <1>3, <1>6, ChannelRoom
  <2> QED
    BY <1>4, <1>5, <2>1 DEF Members
<1>9. RoomOperators(chan') = RoomOperators(chan)
  <2>1. RoomOperators(chan) = [m \in Names |-> RoomOperators(chan)[m]]
    BY DEF RoomOperators
  <2> QED
    BY <1>8, <2>1
<1> QED
  BY <1>7, <1>8, <1>9, ToEnter

LEMMA CreateRoom ==
  ASSUME Agreement, LiveInv, LiveInv', NEW u \in Users, NEW c \in Ptrs, NEW n \in Names,
         NEW k \in Keys \cup {NoKey}, Create(u, c, n, k)
  PROVE  Rm!Open(u, n)
<1> DEFINE r == NewChannel(n, k, u)
<1>1. chan \in [Ptrs -> Channel] /\ chan' \in [Ptrs -> Channel] /\ Unique(chan')
  BY DEF LiveInv, TypeInv, ChannelsTypeOK, LiveChannels, Unique
<1>2. chan' = [chan EXCEPT ![c] = r]
  BY DEF Create
<1>3. r.name = n /\ r.operators = {u} /\ r.normal = <<>>
  BY DEF NewChannel, Freed
<1> HIDE DEF r
<1>4. IsLive(chan'[c]) /\ chan'[c] = r
  BY <1>1, <1>2, <1>3, NamesAssumption DEF IsLive
<1>5. ToSet(<<>>) = {}
  BY DEF ToSet
<1>6. RoomOperators(chan')[n] = {u} /\ RoomOthers(chan')[n] = {}
  BY <1>1, <1>3, <1>4, <1>5, RoomOfChannel
<1>7. RoomOperators(chan)[n] = {} /\ RoomOthers(chan)[n] = {}
  BY RoomOfNobody DEF Create
<1>8. ASSUME NEW m \in Names \ {n}
      PROVE  /\ RoomOperators(chan')[m] = RoomOperators(chan)[m]
             /\ RoomOthers(chan')[m] = RoomOthers(chan)[m]
  <2>1. ~ IsLive(chan[c])
    BY DEF Create
  <2>2. ASSUME NEW d \in Ptrs, chan[d].name = m \/ chan'[d].name = m
        PROVE  chan'[d] = chan[d]
    BY <1>1, <1>2, <1>3, <2>1, <2>2, NamesAssumption DEF IsLive
  <2>3. \A d \in Ptrs : chan[d].name = m \/ chan'[d].name = m =>
          /\ chan'[d].name = chan[d].name
          /\ chan'[d].operators = chan[d].operators
          /\ ToSet(chan'[d].normal) = ToSet(chan[d].normal)
    BY <2>2
  <2> QED
    BY <2>3, SameRoom
<1>9. /\ RoomOperators(chan) = [m \in Names |-> RoomOperators(chan)[m]]
      /\ RoomOthers(chan) = [m \in Names |-> RoomOthers(chan)[m]]
      /\ RoomOperators(chan') = [m \in Names |-> RoomOperators(chan')[m]]
      /\ RoomOthers(chan') = [m \in Names |-> RoomOthers(chan')[m]]
  BY DEF RoomOperators, RoomOthers
<1>10. RoomOperators(chan') = [RoomOperators(chan) EXCEPT ![n] = {u}]
  BY <1>6, <1>8, <1>9
<1>11. RoomOthers(chan') = RoomOthers(chan)
  BY <1>6, <1>7, <1>8, <1>9
<1> QED
  BY <1>7, <1>10, <1>11, ToOpen

\* What MODE o does to the two lists.
LEMMA LevelsCases ==
  ASSUME Agreement, NEW c \in Ptrs, NEW r \in Levels(chan[c])
  PROVE  LET ch == chan[c] IN
           \/ r = ch
           \/ \E v \in ToSet(ch.normal) :
                /\ r.operators = ch.operators \cup {v}
                /\ ToSet(r.normal) = ToSet(ch.normal) \ {v}
           \/ \E v \in ch.operators :
                /\ r.operators = ch.operators \ {v}
                /\ ToSet(r.normal) = ToSet(ch.normal) \cup {v}
<1> DEFINE ch == chan[c]
<1>1. ch \in Channel /\ Sound(ch)
  BY ChannelAgreement
<1>2. ASSUME NEW v \in Members(ch), r = Promote(ch, v), r # ch
      PROVE  /\ v \in ToSet(ch.normal)
             /\ r.operators = ch.operators \cup {v}
             /\ ToSet(r.normal) = ToSet(ch.normal) \ {v}
  <2> DEFINE seq == Without(ch.normal, v)
             q == [ch EXCEPT !.normal = seq, !.operators = ch.operators \cup {v}]
  <2>1. v \in Connected /\ v \notin ch.operators
    BY <1>2, ChannelAgreement, FindUser DEF Promote, Listed, Named
  <2>2. r = q
    BY <1>2 DEF Promote
  <2>3. ToSet(seq) = ToSet(ch.normal) \ {v}
    BY <1>1, ChannelFields, WithoutElements DEF Sound
  <2> HIDE DEF seq
  <2>4. q.operators = ch.operators \cup {v} /\ q.normal = seq
    BY <1>1 DEF Channel
  <2> HIDE DEF q
  <2> QED
    BY <2>1, <2>2, <2>3, <2>4 DEF Members
<1>3. ASSUME NEW v \in Members(ch), r = Demote(ch, v), r # ch
      PROVE  /\ v \in ch.operators
             /\ r.operators = ch.operators \ {v}
             /\ ToSet(r.normal) = ToSet(ch.normal) \cup {v}
  <2> DEFINE seq == Append(ch.normal, v)
             q == [ch EXCEPT !.operators = ch.operators \ {v}, !.normal = seq]
  <2>1. v \in Users /\ v \notin ToSet(ch.normal)
    BY <1>3, ChannelAgreement, FindUser DEF Demote, Listed, Named, Connected
  <2>2. r = q
    BY <1>3 DEF Demote
  <2>3. ToSet(seq) = ToSet(ch.normal) \cup {v}
    BY <1>1, <2>1, ChannelFields, AppendElements
  <2> HIDE DEF seq
  <2>4. q.operators = ch.operators \ {v} /\ q.normal = seq
    BY <1>1 DEF Channel
  <2> HIDE DEF q
  <2> QED
    BY <2>1, <2>2, <2>3, <2>4 DEF Members
<1> QED
  BY <1>2, <1>3 DEF Levels, Nameable

LEMMA ModeRoom ==
  ASSUME Agreement, LiveInv, NEW u \in Users, NEW c \in Ptrs, Mode(u, c)
  PROVE  \/ UNCHANGED Rm!vars
         \/ \E n \in Names : Rm!Appoint(n) \/ Rm!Dismiss(n)
<1> DEFINE ch == chan[c]
<1> PICK n : n = ch.name
  OBVIOUS
<1>1. PICK r \in Channel, l \in Levels(ch) :
        /\ chan' = [chan EXCEPT ![c] = r]
        /\ r.operators = l.operators
        /\ r.normal = l.normal
        /\ r.name = l.name
  BY ModeChannel DEF Agreement
<1>2. r.name = n /\ IsLive(ch) /\ Becomes(chan, chan', c, r)
  BY <1>1, ItBecomes, ChannelAgreement, LevelsKeep DEF SameSettings, Mode
<1> HIDE DEF ch
<1>3. /\ n \in Names
      /\ RoomOperators(chan)[n] = ch.operators
      /\ RoomOthers(chan)[n] = ToSet(ch.normal)
      /\ RoomOperators(chan') = [RoomOperators(chan) EXCEPT ![n] = r.operators]
      /\ RoomOthers(chan') = [RoomOthers(chan) EXCEPT ![n] = ToSet(r.normal)]
  BY <1>2, ChannelRoom DEF ch
<1>4. ASSUME l = ch PROVE UNCHANGED Rm!vars
  BY <1>1, <1>2, <1>4, SameListsRoom DEF ch
<1>5. ASSUME NEW v \in ToSet(ch.normal),
             l.operators = ch.operators \cup {v}, ToSet(l.normal) = ToSet(ch.normal) \ {v}
      PROVE  Rm!Appoint(n)
  <2>1. ch.operators # {}
    BY GovernsRules DEF Mode, Asks, RuledBy, ch
  <2>2. /\ v \in RoomOthers(chan)[n] /\ RoomOperators(chan)[n] # {}
        /\ RoomOperators(chan') = [RoomOperators(chan) EXCEPT ![n] = @ \cup {v}]
        /\ RoomOthers(chan') = [RoomOthers(chan) EXCEPT ![n] = @ \ {v}]
    BY <1>1, <1>3, <1>5, <2>1
  <2> QED
    BY <2>2, ToAppoint
<1>6. ASSUME NEW v \in ch.operators,
             l.operators = ch.operators \ {v}, ToSet(l.normal) = ToSet(ch.normal) \cup {v}
      PROVE  Rm!Dismiss(n)
  <2>1. /\ v \in RoomOperators(chan)[n]
        /\ RoomOperators(chan') = [RoomOperators(chan) EXCEPT ![n] = @ \ {v}]
        /\ RoomOthers(chan') = [RoomOthers(chan) EXCEPT ![n] = @ \cup {v}]
    BY <1>1, <1>3, <1>6
  <2> QED
    BY <2>1, ToDismiss
<1>7. \/ l = ch
      \/ \E v \in ToSet(ch.normal) : /\ l.operators = ch.operators \cup {v}
                                     /\ ToSet(l.normal) = ToSet(ch.normal) \ {v}
      \/ \E v \in ch.operators : /\ l.operators = ch.operators \ {v}
                                 /\ ToSet(l.normal) = ToSet(ch.normal) \cup {v}
  BY LevelsCases DEF ch
<1>8. UNCHANGED Rm!vars \/ Rm!Appoint(n) \/ Rm!Dismiss(n)
  BY <1>4, <1>5, <1>6, <1>7
<1> QED
  BY <1>3, <1>8

LEMMA RoomsStep ==
  UninvitedInv /\ Agreement /\ LiveInv /\ [Next]_vars => [Rm!Next]_Rm!vars
<1> SUFFICES ASSUME Uninviting, Agreement, LiveInv, NoEntries, [Next]_vars
             PROVE  Rm!Next \/ UNCHANGED Rm!vars
  BY DEF UninvitedInv
<1>1. LiveInv'
  BY LiveStep
<1>2. CASE UNCHANGED chan
  BY <1>2, ToStutter
<1>3. ASSUME NEW u \in Users, NEW c \in Ptrs, NEW k, Join(u, c, k) PROVE Rm!Next
  BY <1>3, JoinRoom DEF Rm!Next
<1>4. ASSUME NEW u \in Users, NEW c \in Ptrs, NEW n \in Names, NEW k \in Keys \cup {NoKey},
             Create(u, c, n, k)
      PROVE  Rm!Next
  BY <1>1, <1>4, CreateRoom DEF Rm!Next
<1>5. \A u \in Users, c \in Ptrs, t \in Users : ~ Invite(u, t, c)
  BY DEF Invite, Asks, Sends, Uninviting
<1>6. ASSUME NEW u \in Users, NEW c \in Ptrs, Mode(u, c) PROVE Rm!Next \/ UNCHANGED Rm!vars
  BY <1>6, ModeRoom DEF Rm!Next
<1>7. ASSUME NEW u \in Users, NEW c \in Ptrs, NEW t \in Topics, Topic(u, c, t)
      PROVE  UNCHANGED Rm!vars
  <2> DEFINE r == [chan[c] EXCEPT !.topic = t]
  <2>1. r \in Channel
    BY ChannelAgreement, WithTopic
  <2>2. r.operators = chan[c].operators /\ r.normal = chan[c].normal /\ r.name = chan[c].name
    BY ChannelAgreement DEF Channel
  <2>3. Becomes(chan, chan', c, r) /\ IsLive(chan[c])
    BY <1>7, <2>1, ItBecomes DEF Topic
  <2> HIDE DEF r
  <2> QED
    BY <2>1, <2>2, <2>3, SameListsRoom
<1>8. ASSUME NEW u \in Connected, NEW cs \in SUBSET Ptrs, \A c \in cs : u \in Members(chan[c]),
             chan' = Settle([c \in Ptrs |->
                       IF c \in cs THEN RemoveUser(chan[c], u) ELSE chan[c]])
      PROVE  Rm!Next
  <2>1. \E rooms \in SUBSET Names : Rm!Leave(u, rooms)
    BY <1>1, <1>8, Uninvited, RoomsLose
  <2>2. u \in Users
    BY DEF Connected
  <2> QED
    BY <2>1, <2>2 DEF Rm!Next
<1>9. ASSUME NEW u \in Named, NEW cs \in SUBSET Ptrs, Departs(u, cs) PROVE Rm!Next
  BY <1>8, <1>9 DEF Departs, Leave, Named
<1>10. ASSUME NEW u \in Users, Quit(u) PROVE Rm!Next
  BY <1>8, <1>10, QuitLeaves
<1> QED
  BY <1>2, <1>3, <1>4, <1>5, <1>6, <1>7, <1>9, <1>10, KindsOfStep

LEMMA RoomsInit == Init => Rm!Init
<1> SUFFICES ASSUME Init PROVE Rm!Init
  OBVIOUS
<1>1. Freed.name = NoName
  BY DEF Freed
<1>2. \A n \in Names, c \in Ptrs : chan[c].name # n
  BY <1>1, NamesAssumption DEF Init
<1>3. \A n \in Names : RoomOperators(chan)[n] = {} /\ RoomOthers(chan)[n] = {}
  BY <1>2, RoomOfNobody
<1>4. /\ RoomOperators(chan) = [n \in Names |-> {}]
      /\ RoomOthers(chan) = [n \in Names |-> {}]
  BY <1>3 DEF RoomOperators, RoomOthers
<1> QED
  BY <1>4 DEF Rm!Init, RoomOperators, RoomOthers, WithName

\* Where nobody is invited, channels are rooms: whatever lists, addresses,
\* nicknames and commands it takes, a name stands for one room, whoever opens it
\* operates it, and a departure with its heir is one step.
THEOREM ChannelsAreRooms == Uninviting /\ Spec => RoomsSpec
<1>1. Uninviting => Polite
  BY DEF Uninviting
<1>2. Uninviting /\ Init => UninvitedInv
  BY DEF Init, UninvitedInv, NoEntries
<1>3. Spec => []LiveInv
  BY LiveInit, LiveStep, PTL DEF Spec
<1> QED
  BY <1>1, <1>2, <1>3, RoomsInit, RoomsStep, UninvitedStep, AgreementInvariant, PTL
     DEF Spec, RoomsSpec, Rm!Spec

=============================================================================
