--------------------------- MODULE ChannelsProofs ---------------------------
(***************************************************************************)
(* Proofs about Channels, for any clients, those that overwrite their      *)
(* nickname included, and any nicknames, addresses, channel names and      *)
(* bounds: types, when a channel lives, what a user keeps about channels,  *)
(* and the operators that departures leave.                                *)
(*                                                                         *)
(* A nickname that two clients bear may make a test find the other one,    *)
(* and then a removal takes nobody out; but a user always finds itself,    *)
(* and no removal takes out anybody else.                                  *)
(***************************************************************************)
EXTENDS Channels, RegistrationProofs

-----------------------------------------------------------------------------
(* Lists without an element *)

NoRepeats(s) == \A i, j \in DOMAIN s : s[i] = s[j] => i = j

LEMMA SeqDomain ==
  ASSUME NEW S, NEW s \in Seq(S)
  PROVE  /\ Len(s) \in Nat
         /\ DOMAIN s = 1 .. Len(s)
         /\ \A i \in DOMAIN s : s[i] \in S
         /\ ToSet(s) \subseteq S
  BY DEF ToSet

\* What Without does when the element is at position at.
LEMMA WithoutAt ==
  ASSUME NEW S, NEW s \in Seq(S), NEW u, u \in ToSet(s)
  PROVE  \E at \in 1 .. Len(s) :
           /\ s[at] = u
           /\ Without(s, u) \in [1 .. Len(s) - 1 -> S]
           /\ Len(s) - 1 \in Nat
           /\ \A i \in 1 .. Len(s) - 1 :
                Without(s, u)[i] = IF i < at THEN s[i] ELSE s[i + 1]
<1> DEFINE at == CHOOSE i \in DOMAIN s : s[i] = u
           t == [i \in 1 .. Len(s) - 1 |-> IF i < at THEN s[i] ELSE s[i + 1]]
<1>1. \E i \in DOMAIN s : s[i] = u
  BY DEF ToSet
<1>2. at \in 1 .. Len(s) /\ s[at] = u /\ Len(s) \in Nat
  BY <1>1
<1>3. Without(s, u) = t
  BY <1>1 DEF Without
<1>4. \A i \in 1 .. Len(s) - 1 : s[i] \in S /\ s[i + 1] \in S
  BY <1>2
<1> HIDE DEF at
<1>5. t \in [1 .. Len(s) - 1 -> S]
  BY <1>4
<1>6. Len(s) - 1 \in Nat
  BY <1>2
<1> QED
  BY <1>2, <1>3, <1>5, <1>6

LEMMA WithoutNothing ==
  ASSUME NEW s, NEW u, u \notin ToSet(s) PROVE Without(s, u) = s
  BY DEF Without, ToSet

LEMMA WithoutType ==
  ASSUME NEW S, NEW s \in Seq(S), NEW u PROVE Without(s, u) \in Seq(S)
<1>1. CASE u \in ToSet(s)
  <2>1. Len(s) - 1 \in Nat /\ Without(s, u) \in [1 .. Len(s) - 1 -> S]
    BY <1>1, WithoutAt
  <2> QED
    BY <2>1
<1> QED
  BY <1>1, WithoutNothing

\* From a list without repetitions exactly the element goes.
LEMMA WithoutElements ==
  ASSUME NEW S, NEW s \in Seq(S), NEW u, NoRepeats(s)
  PROVE  /\ ToSet(Without(s, u)) = ToSet(s) \ {u}
         /\ NoRepeats(Without(s, u))
<1>1. CASE u \notin ToSet(s)
  BY <1>1, WithoutNothing
<1>2. CASE u \in ToSet(s)
  <2> DEFINE t == Without(s, u)
  <2>1. PICK at \in 1 .. Len(s) :
          /\ s[at] = u
          /\ t \in [1 .. Len(s) - 1 -> S]
          /\ Len(s) - 1 \in Nat
          /\ \A i \in 1 .. Len(s) - 1 : t[i] = IF i < at THEN s[i] ELSE s[i + 1]
    BY <1>2, WithoutAt
  <2>2. DOMAIN t = 1 .. Len(s) - 1 /\ DOMAIN s = 1 .. Len(s) /\ Len(s) \in Nat
    BY <2>1
  <2> HIDE DEF t
  <2>3. ToSet(t) \subseteq ToSet(s) \ {u}
    <3> SUFFICES ASSUME NEW i \in DOMAIN t PROVE t[i] \in ToSet(s) \ {u}
      BY DEF ToSet
    <3>1. CASE i < at
      BY <2>1, <2>2, <3>1 DEF NoRepeats, ToSet
    <3>2. CASE ~ (i < at)
      BY <2>1, <2>2, <3>2 DEF NoRepeats, ToSet
    <3> QED
      BY <3>1, <3>2
  <2>4. ToSet(s) \ {u} \subseteq ToSet(t)
    <3> SUFFICES ASSUME NEW j \in DOMAIN s, s[j] # u PROVE s[j] \in ToSet(t)
      BY DEF ToSet
    <3>1. CASE j < at
      <4>1. j \in DOMAIN t /\ t[j] = s[j]
        BY <2>1, <2>2, <3>1
      <4> QED
        BY <4>1 DEF ToSet
    <3>2. CASE at < j
      <4>1. j - 1 \in DOMAIN t /\ t[j - 1] = s[j]
        BY <2>1, <2>2, <3>2
      <4> QED
        BY <4>1 DEF ToSet
    <3> QED
      BY <2>1, <2>2, <3>1, <3>2
  <2>5. NoRepeats(t)
    <3> SUFFICES ASSUME NEW i \in DOMAIN t, NEW j \in DOMAIN t, t[i] = t[j] PROVE i = j
      BY DEF NoRepeats
    <3> DEFINE place(k) == IF k < at THEN k ELSE k + 1
    <3>1. /\ place(i) \in DOMAIN s /\ t[i] = s[place(i)]
          /\ place(j) \in DOMAIN s /\ t[j] = s[place(j)]
      BY <2>1, <2>2
    <3>2. place(i) = place(j)
      BY <3>1 DEF NoRepeats
    <3> QED
      BY <2>2, <3>2
  <2> QED
    BY <2>3, <2>4, <2>5 DEF t
<1> QED
  BY <1>1, <1>2

LEMMA AppendElements ==
  ASSUME NEW S, NEW s \in Seq(S), NEW u \in S
  PROVE  /\ Append(s, u) \in Seq(S)
         /\ Append(s, u) # <<>>
         /\ ToSet(Append(s, u)) = ToSet(s) \cup {u}
         /\ NoRepeats(s) /\ u \notin ToSet(s) => NoRepeats(Append(s, u))
<1> DEFINE t == Append(s, u)
<1>1. /\ t \in Seq(S)
      /\ Len(t) = Len(s) + 1
      /\ Len(s) \in Nat
      /\ DOMAIN t = 1 .. Len(s) + 1
      /\ DOMAIN s = 1 .. Len(s)
      /\ t[Len(s) + 1] = u
      /\ \A i \in 1 .. Len(s) : t[i] = s[i]
  OBVIOUS
<1> HIDE DEF t
<1>2. ToSet(t) = ToSet(s) \cup {u}
  <2>1. ToSet(t) \subseteq ToSet(s) \cup {u}
    BY <1>1 DEF ToSet
  <2>2. ToSet(s) \subseteq ToSet(t) /\ u \in ToSet(t)
    BY <1>1 DEF ToSet
  <2> QED
    BY <2>1, <2>2
<1>3. NoRepeats(s) /\ u \notin ToSet(s) => NoRepeats(t)
  BY <1>1 DEF NoRepeats, ToSet
<1>4. t # <<>>
  BY <1>1
<1> QED
  BY <1>1, <1>2, <1>3, <1>4 DEF t

LEMMA HeadElement ==
  ASSUME NEW S, NEW s \in Seq(S), s # <<>> PROVE Head(s) \in ToSet(s) /\ Head(s) \in S
  BY DEF ToSet

LEMMA EmptyElements == ASSUME NEW S, NEW s \in Seq(S) PROVE ToSet(s) = {} <=> s = <<>>
  BY DEF ToSet

-----------------------------------------------------------------------------
(* Type correctness *)

LEMMA FreedType == Freed \in Channel
<1>1. <<>> \in Seq(Users) /\ {} \in SUBSET Users
  OBVIOUS
<1> QED
  BY <1>1, TopicsAssumption DEF Freed, Channel

LEMMA ChannelFields ==
  ASSUME NEW ch \in Channel
  PROVE  /\ ch.operators \subseteq Users
         /\ ch.normal \in Seq(Users)
         /\ ch.invited \subseteq Users
         /\ ToSet(ch.normal) \subseteq Users
         /\ Members(ch) \subseteq Users
  BY SeqDomain DEF Channel, Members

\* The three lists of a channel can be rewritten one by one.
LEMMA WithLists ==
  ASSUME NEW ch \in Channel, NEW ops \in SUBSET Users, NEW seq \in Seq(Users),
         NEW inv \in SUBSET Users
  PROVE  /\ [ch EXCEPT !.operators = ops] \in Channel
         /\ [ch EXCEPT !.normal = seq] \in Channel
         /\ [ch EXCEPT !.invited = inv] \in Channel
         /\ [ch EXCEPT !.normal = seq, !.operators = ops] \in Channel
         /\ [ch EXCEPT !.operators = ops, !.normal = seq] \in Channel
  BY DEF Channel

LEMMA PromoteType ==
  ASSUME NEW ch \in Channel, NEW u \in Users PROVE Promote(ch, u) \in Channel
  BY ChannelFields, WithoutType, WithLists DEF Promote

LEMMA DemoteType ==
  ASSUME NEW ch \in Channel, NEW u \in Users PROVE Demote(ch, u) \in Channel
  BY ChannelFields, AppendElements, WithLists DEF Demote

LEMMA InheritType == ASSUME NEW ch \in Channel PROVE Inherit(ch) \in Channel
  BY ChannelFields, HeadElement, PromoteType DEF Inherit

LEMMA RemoveUserType ==
  ASSUME NEW ch \in Channel, NEW u \in Users PROVE RemoveUser(ch, u) \in Channel
<1>1. [ch EXCEPT !.invited = @ \ {u}] \in Channel
  BY ChannelFields, WithLists
<1>2. [ch EXCEPT !.operators = @ \ {u}] \in Channel
  BY ChannelFields, WithLists
<1>3. [ch EXCEPT !.normal = Without(@, u)] \in Channel
  BY ChannelFields, WithLists, WithoutType
<1> QED
  BY <1>1, <1>2, <1>3, InheritType DEF RemoveUser

LEMMA AddNormalType ==
  ASSUME NEW ch \in Channel, NEW u \in Users PROVE AddNormal(ch, u) \in Channel
<1> DEFINE inv == IF IsInvited(ch, nick[u]) THEN ch.invited \ {u} ELSE ch.invited
           seq == Append(ch.normal, u)
<1>1. inv \in SUBSET Users /\ seq \in Seq(Users)
  BY ChannelFields, AppendElements
<1>2. AddNormal(ch, u) = [ch EXCEPT !.invited = inv, !.normal = seq]
  BY DEF AddNormal
<1> HIDE DEF inv, seq
<1>3. [ch EXCEPT !.invited = inv, !.normal = seq] \in Channel
  BY <1>1 DEF Channel
<1> QED
  BY <1>2, <1>3

LEMMA SettleType ==
  ASSUME NEW cs \in [Ptrs -> Channel] PROVE Settle(cs) \in [Ptrs -> Channel]
  BY FreedType DEF Settle

LEMMA ForgetType ==
  ASSUME NEW cs, invites \in [Users -> [Ptrs -> Nat]]
  PROVE  Forget(cs) \in [Users -> [Ptrs -> Nat]]
<1>1. \A v \in Users, c \in Ptrs : invites[v][c] \in Nat
  OBVIOUS
<1>2. \A v \in Users, c \in Ptrs : invites[v][c] > 0 => invites[v][c] - 1 \in Nat
  BY <1>1
<1> QED
  BY <1>1, <1>2 DEF Forget

LEMMA LeaveType ==
  ASSUME ChannelsTypeOK, NEW u \in Users, NEW cs \in SUBSET Ptrs, Leave(u, cs)
  PROVE  /\ chan' \in [Ptrs -> Channel]
         /\ joined' \in [Users -> SUBSET Ptrs]
         /\ invites' \in [Users -> [Ptrs -> Nat]]
<1> DEFINE left == [c \in Ptrs |-> IF c \in cs THEN RemoveUser(chan[c], u) ELSE chan[c]]
<1>1. left \in [Ptrs -> Channel]
  BY RemoveUserType DEF ChannelsTypeOK
<1>2. chan' = Settle(left) /\ invites' = Forget(left)
  BY DEF Leave
<1>3. joined' \in [Users -> SUBSET Ptrs]
  BY DEF Leave, ChannelsTypeOK
<1> HIDE DEF left
<1> QED
  BY <1>1, <1>2, <1>3, SettleType, ForgetType DEF ChannelsTypeOK

\* The channels and entries that the deletion of a user goes through.
LEMMA EndTypes ==
  ASSUME ChannelsTypeOK, NEW u \in Users
  PROVE  /\ Emptied(u) \in [Ptrs -> Channel]
         /\ Forget(Emptied(u)) \in [Users -> [Ptrs -> Nat]]
         /\ Settle(Emptied(u)) \in [Ptrs -> Channel]
         /\ Released(u) \in [Ptrs -> Channel]
         /\ Settle(Released(u)) \in [Ptrs -> Channel]
         /\ EntriesAfter(u) \in [Users -> [Ptrs -> Nat]]
<1>1. Emptied(u) \in [Ptrs -> Channel]
  BY RemoveUserType DEF Emptied, ChannelsTypeOK
<1>2. /\ Settle(Emptied(u)) \in [Ptrs -> Channel]
      /\ Forget(Emptied(u)) \in [Users -> [Ptrs -> Nat]]
  BY <1>1, SettleType, ForgetType DEF ChannelsTypeOK
<1>3. Released(u) \in [Ptrs -> Channel]
  <2> DEFINE cs == Settle(Emptied(u))
             entries == Forget(Emptied(u))[u]
  <2>1. Released(u) = [c \in Ptrs |->
          CASE entries[c] = 0 -> cs[c]
            [] entries[c] = 1 -> RemoveUser(cs[c], u)
            [] OTHER -> RemoveUser(RemoveUser(cs[c], u), u)]
    BY DEF Released
  <2>2. \A c \in Ptrs : /\ cs[c] \in Channel
                        /\ RemoveUser(cs[c], u) \in Channel
                        /\ RemoveUser(RemoveUser(cs[c], u), u) \in Channel
    BY <1>2, RemoveUserType
  <2> HIDE DEF cs, entries
  <2> QED
    BY <2>1, <2>2
<1>4. Settle(Released(u)) \in [Ptrs -> Channel]
  BY <1>3, SettleType
<1>5. EntriesAfter(u) \in [Users -> [Ptrs -> Nat]]
  <2>1. \A v \in Users, c \in Ptrs : invites[v][c] \in Nat
    BY DEF ChannelsTypeOK
  <2>2. \A v \in Users, c \in Ptrs : EntriesAfter(u)[v][c] \in Nat
    BY <2>1 DEF EntriesAfter
  <2>3. EntriesAfter(u) \in [Users -> [Ptrs -> Nat]]
    BY <2>2 DEF EntriesAfter
  <2> QED
    BY <2>3
<1> QED
  BY <1>1, <1>2, <1>3, <1>4, <1>5

\* The two invariants that need nothing of the clients.
TypeInv == RegInv /\ ChannelsTypeOK

LEMMA ChannelsInitType == Init => TypeInv
<1> SUFFICES ASSUME Init PROVE TypeInv
  OBVIOUS
<1>1. RegInv
  BY InitInv DEF Init
<1>2. chan \in [Ptrs -> Channel]
  BY FreedType DEF Init
<1>3. kick \in Seq(Ptrs \X Nicks)
  BY DEF Init
<1> QED
  BY <1>1, <1>2, <1>3 DEF Init, TypeInv, ChannelsTypeOK, RegInv

LEMMA IdentifyType ==
  ASSUME TypeInv, NEW u \in Users, Identify(u) PROVE TypeInv'
<1>1. RegInv'
  BY IdentificationInv DEF TypeInv, Identify
<1> QED
  BY <1>1 DEF TypeInv, Identify, ChannelsTypeOK, chanVars, RegInv

\* For the steps that leave the clients alone it is enough to look at channels.
LEMMA ChannelStepType ==
  ASSUME TypeInv, UNCHANGED regVars,
         chan' \in [Ptrs -> Channel],
         joined' \in [Users -> SUBSET Ptrs],
         invites' \in [Users -> [Ptrs -> Nat]],
         kick' \in Seq(Ptrs \X Nicks),
         fault' \in {"none", "channel", "user"}
  PROVE  TypeInv'
<1>1. RegInv'
  BY StutterInv DEF TypeInv
<1> QED
  BY <1>1 DEF TypeInv, ChannelsTypeOK, RegInv

LEMMA JoinType ==
  ASSUME TypeInv, NEW u \in Users, NEW c \in Ptrs, NEW k, Join(u, c, k) PROVE TypeInv'
<1>1. chan' \in [Ptrs -> Channel]
  BY AddNormalType DEF Join, TypeInv, ChannelsTypeOK
<1> QED
  BY <1>1, ChannelStepType DEF Join, TypeInv, ChannelsTypeOK

LEMMA NewChannelType ==
  ASSUME NEW n \in Names, NEW k \in Keys \cup {NoKey}, NEW u \in Users
  PROVE  NewChannel(n, k, u) \in Channel
<1>1. {u} \in SUBSET Users
  OBVIOUS
<1> QED
  BY <1>1, FreedType DEF NewChannel, Channel

LEMMA CreateType ==
  ASSUME TypeInv, NEW u \in Users, NEW c \in Ptrs, NEW n \in Names,
         NEW k \in Keys \cup {NoKey}, Create(u, c, n, k)
  PROVE  TypeInv'
<1>1. chan' \in [Ptrs -> Channel]
  BY NewChannelType DEF Create, TypeInv, ChannelsTypeOK
<1> QED
  BY <1>1, ChannelStepType DEF Create, TypeInv, ChannelsTypeOK

LEMMA PartType ==
  ASSUME TypeInv, NEW u \in Users, NEW c \in Ptrs, Part(u, c) PROVE TypeInv'
<1>1. {c} \in SUBSET Ptrs
  OBVIOUS
<1> QED
  BY <1>1, LeaveType, ChannelStepType DEF Part, TypeInv, ChannelsTypeOK

LEMMA JoinZeroType ==
  ASSUME TypeInv, NEW u \in Users, JoinZero(u) PROVE TypeInv'
<1>1. joined[u] \in SUBSET Ptrs
  BY DEF TypeInv, ChannelsTypeOK
<1> QED
  BY <1>1, LeaveType, ChannelStepType DEF JoinZero, TypeInv, ChannelsTypeOK

LEMMA InvitedType ==
  ASSUME NEW ch \in Channel, NEW t \in Users
  PROVE  [ch EXCEPT !.invited = @ \cup {t}] \in Channel
<1> DEFINE inv == ch.invited \cup {t}
<1>1. inv \in SUBSET Users
  BY ChannelFields
<1> HIDE DEF inv
<1>2. [ch EXCEPT !.invited = inv] \in Channel
  BY <1>1 DEF Channel
<1> QED
  BY <1>2 DEF inv

LEMMA InviteType ==
  ASSUME TypeInv, NEW u \in Users, NEW t \in Users, NEW c \in Ptrs, Invite(u, t, c)
  PROVE  TypeInv'
<1>1. [chan[c] EXCEPT !.invited = @ \cup {t}] \in Channel
  BY InvitedType DEF TypeInv, ChannelsTypeOK
<1>2. chan' \in [Ptrs -> Channel]
  BY <1>1 DEF Invite, TypeInv, ChannelsTypeOK
<1>3. invites' \in [Users -> [Ptrs -> Nat]]
  <2>1. invites[t][c] + 1 \in Nat
    BY DEF TypeInv, ChannelsTypeOK
  <2> QED
    BY <2>1 DEF Invite, TypeInv, ChannelsTypeOK
<1> QED
  BY <1>2, <1>3, ChannelStepType DEF Invite, TypeInv, ChannelsTypeOK

LEMMA LevelsType ==
  ASSUME NEW ch \in Channel PROVE Levels(ch) \subseteq Channel
  BY ChannelFields, PromoteType, DemoteType DEF Levels, Nameable

\* The lists of users are what MODE o made of them, the rest is free.
WithModes(ch, i, t, k, l) ==
  [ch EXCEPT !.inviteOnly = i, !.topicLock = t, !.key = k, !.limit = l]

LEMMA WithModesType ==
  ASSUME NEW ch \in Channel, NEW i \in BOOLEAN, NEW t \in BOOLEAN,
         NEW k \in Keys \cup {NoKey}, NEW l \in Limits \cup {0}
  PROVE  /\ WithModes(ch, i, t, k, l) \in Channel
         /\ WithModes(ch, i, t, k, l).operators = ch.operators
         /\ WithModes(ch, i, t, k, l).normal = ch.normal
         /\ WithModes(ch, i, t, k, l).invited = ch.invited
         /\ WithModes(ch, i, t, k, l).name = ch.name
  BY DEF WithModes, Channel

\* What MODE makes of a channel.
LEMMA ModeChannel ==
  ASSUME TypeInv, NEW u \in Users, NEW c \in Ptrs, Mode(u, c)
  PROVE  \E r \in Channel, ch \in Levels(chan[c]) :
           /\ chan' = [chan EXCEPT ![c] = r]
           /\ r.operators = ch.operators
           /\ r.normal = ch.normal
           /\ r.invited = ch.invited
           /\ r.name = ch.name
<1>0. chan[c].key \in Keys \cup {NoKey}
  BY DEF TypeInv, ChannelsTypeOK, Channel
<1>1. PICK i \in BOOLEAN, t \in BOOLEAN, k \in (Keys \ {EmptyKey}) \cup {NoKey, chan[c].key},
           l \in Limits \cup {0}, ch \in Levels(chan[c]) :
        chan' = [chan EXCEPT ![c] = WithModes(ch, i, t, k, l)]
  BY DEF Mode, WithModes
<1>2. ch \in Channel
  BY LevelsType DEF TypeInv, ChannelsTypeOK
<1> DEFINE r == WithModes(ch, i, t, k, l)
<1>3. /\ r \in Channel
      /\ r.operators = ch.operators
      /\ r.normal = ch.normal
      /\ r.invited = ch.invited
      /\ r.name = ch.name
  BY <1>0, <1>2, WithModesType
<1>4. chan' = [chan EXCEPT ![c] = r]
  BY <1>1
<1> HIDE DEF r
<1> QED
  BY <1>3, <1>4

LEMMA ModeType ==
  ASSUME TypeInv, NEW u \in Users, NEW c \in Ptrs, Mode(u, c) PROVE TypeInv'
<1>1. chan' \in [Ptrs -> Channel]
  BY ModeChannel DEF TypeInv, ChannelsTypeOK
<1> QED
  BY <1>1, ChannelStepType DEF Mode, TypeInv, ChannelsTypeOK

LEMMA WithTopic ==
  ASSUME NEW ch \in Channel, NEW t \in Topics PROVE [ch EXCEPT !.topic = t] \in Channel
  BY DEF Channel

LEMMA TopicType ==
  ASSUME TypeInv, NEW u \in Users, NEW c \in Ptrs, NEW t \in Topics, Topic(u, c, t)
  PROVE  TypeInv'
<1>1. [chan[c] EXCEPT !.topic = t] \in Channel
  BY WithTopic DEF TypeInv, ChannelsTypeOK
<1>2. chan' \in [Ptrs -> Channel]
  BY <1>1 DEF Topic, TypeInv, ChannelsTypeOK
<1> QED
  BY <1>2, ChannelStepType DEF Topic, TypeInv, ChannelsTypeOK

LEMMA KickType ==
  ASSUME TypeInv, NEW u \in Users, NEW c \in Ptrs, NEW targets \in TargetLists,
         Kick(u, c, targets)
  PROVE  TypeInv'
<1>1. PICK n \in 1 .. MaxTargets : targets \in [1 .. n -> Nicks]
  BY DEF TargetLists
<1>2. [i \in 1 .. n |-> <<c, targets[i]>>] \in [1 .. n -> Ptrs \X Nicks]
  BY <1>1
<1>3. kick' \in Seq(Ptrs \X Nicks)
  <2>1. kick' = [i \in 1 .. n |-> <<c, targets[i]>>]
    BY <1>1 DEF Kick
  <2>2. n \in Nat
    BY BoundsAssumption
  <2> QED
    BY <1>2, <2>1, <2>2
<1> QED
  BY <1>3, ChannelStepType DEF Kick, TypeInv, ChannelsTypeOK

\* The head and the tail of the targets of a KICK.
LEMMA KickParts ==
  ASSUME TypeInv, Running
  PROVE  /\ KickChan \in Ptrs
         /\ Head(kick)[2] \in Nicks
         /\ Tail(kick) \in Seq(Ptrs \X Nicks)
<1>1. Head(kick) \in Ptrs \X Nicks /\ Tail(kick) \in Seq(Ptrs \X Nicks)
  BY DEF TypeInv, ChannelsTypeOK, Running
<1> QED
  BY <1>1 DEF KickChan

LEMMA KickStepType == ASSUME TypeInv, KickStep PROVE TypeInv'
<1>1. ASSUME NEW t \in Users, KickTarget(t) PROVE TypeInv'
  <2>1. {KickChan} \in SUBSET Ptrs /\ kick' \in Seq(Ptrs \X Nicks)
    BY <1>1, KickParts DEF KickTarget
  <2> QED
    BY <1>1, <2>1, LeaveType, ChannelStepType DEF KickTarget, TypeInv, ChannelsTypeOK
<1>2. CASE KickMiss
  <2>1. kick' \in Seq(Ptrs \X Nicks)
    BY <1>2, KickParts DEF KickMiss
  <2> QED
    BY <1>2, <2>1, ChannelStepType DEF KickMiss, TypeInv, ChannelsTypeOK
<1>3. CASE KickFreed
  BY <1>3, ChannelStepType DEF KickFreed, TypeInv, ChannelsTypeOK
<1> QED
  BY <1>1, <1>2, <1>3 DEF KickStep

LEMMA QuitType ==
  ASSUME TypeInv, NEW u \in Users, Quit(u) PROVE TypeInv'
<1>1. RegInv'
  BY DisconnectInv DEF TypeInv, Quit
<1>2. chan' \in [Ptrs -> Channel] /\ invites' \in [Users -> [Ptrs -> Nat]]
  BY EndTypes DEF TypeInv, Quit
<1>3. joined' \in [Users -> SUBSET Ptrs]
  BY DEF TypeInv, ChannelsTypeOK, Quit
<1> QED
  BY <1>1, <1>2, <1>3 DEF TypeInv, ChannelsTypeOK, Quit, RegInv

LEMMA QuitFaultsType ==
  ASSUME TypeInv, NEW u \in Users, QuitFaults(u) PROVE TypeInv'
  BY ChannelStepType DEF QuitFaults, TypeInv, ChannelsTypeOK

LEMMA ClientStepType ==
  ASSUME TypeInv, NEW u \in Users, ClientStep(u) PROVE TypeInv'
<1>1. CASE Identify(u)
  BY <1>1, IdentifyType
<1>2. CASE \E c \in Ptrs, k \in Keys \cup {NoKey} : Join(u, c, k)
  BY <1>2, JoinType
<1>3. CASE \E c \in Ptrs, n \in Names, k \in Keys \cup {NoKey} : Create(u, c, n, k)
  BY <1>3, CreateType
<1>4. CASE \E c \in Ptrs : Part(u, c)
  BY <1>4, PartType
<1>5. CASE JoinZero(u)
  BY <1>5, JoinZeroType
<1>6. CASE \E c \in Ptrs, t \in Users : Invite(u, t, c)
  BY <1>6, InviteType
<1>7. CASE \E c \in Ptrs : Mode(u, c)
  BY <1>7, ModeType
<1>8. CASE \E c \in Ptrs, t \in Topics : Topic(u, c, t)
  BY <1>8, TopicType
<1>9. CASE \E c \in Ptrs, targets \in TargetLists : Kick(u, c, targets)
  BY <1>9, KickType
<1>10. CASE Quit(u)
  BY <1>10, QuitType
<1>11. CASE QuitFaults(u)
  BY <1>11, QuitFaultsType
<1> QED
  BY <1>1, <1>2, <1>3, <1>4, <1>5, <1>6, <1>7, <1>8, <1>9, <1>10, <1>11 DEF ClientStep

LEMMA ChannelsStutterType == TypeInv /\ UNCHANGED vars => TypeInv'
  BY ChannelStepType DEF vars, chanVars, TypeInv, ChannelsTypeOK

LEMMA ChannelsStepType == TypeInv /\ [Next]_vars => TypeInv'
  BY ClientStepType, KickStepType, ChannelsStutterType DEF Next, Halted

LEMMA TypeInvariant == Spec => []TypeInv
  BY ChannelsInitType, ChannelsStepType, PTL DEF Spec

\* The state of clients and channels always has its type, for all commands.
THEOREM ChannelsTypeCorrect == Spec => []ChannelsTypeOK
<1>1. TypeInv => ChannelsTypeOK
  BY DEF TypeInv
<1> QED
  BY <1>1, TypeInvariant, PTL

-----------------------------------------------------------------------------
(* What the operations of a channel leave alone *)

\* Everything of a channel but its lists.
SameSettings(r, ch) ==
  /\ r.name = ch.name
  /\ Modes(r) = Modes(ch)
  /\ r.topic = ch.topic

LEMMA EmptyMembers ==
  ASSUME NEW ch \in Channel PROVE IsEmpty(ch) <=> Members(ch) = {}
  BY ChannelFields, EmptyElements DEF IsEmpty, Members

LEMMA PromoteKeeps ==
  ASSUME NEW ch \in Channel, NEW u \in Users
  PROVE  /\ SameSettings(Promote(ch, u), ch)
         /\ ~ IsEmpty(ch) => ~ IsEmpty(Promote(ch, u))
  BY DEF Promote, Channel, IsEmpty, SameSettings, Modes

LEMMA DemoteKeeps ==
  ASSUME NEW ch \in Channel, NEW u \in Users
  PROVE  /\ SameSettings(Demote(ch, u), ch)
         /\ ~ IsEmpty(ch) => ~ IsEmpty(Demote(ch, u))
<1>1. Append(ch.normal, u) # <<>>
  BY ChannelFields, AppendElements
<1> QED
  BY <1>1 DEF Demote, Channel, IsEmpty, SameSettings, Modes

LEMMA InheritKeeps ==
  ASSUME NEW ch \in Channel PROVE SameSettings(Inherit(ch), ch)
  BY ChannelFields, HeadElement, PromoteKeeps DEF Inherit, SameSettings

LEMMA RemoveUserKeeps ==
  ASSUME NEW ch \in Channel, NEW u \in Users PROVE SameSettings(RemoveUser(ch, u), ch)
<1> DEFINE o == [ch EXCEPT !.operators = @ \ {u}]
           n == [ch EXCEPT !.normal = Without(@, u)]
<1>1. o \in Channel /\ SameSettings(o, ch)
  <2>1. [ch EXCEPT !.operators = ch.operators \ {u}] \in Channel
    BY ChannelFields, WithLists
  <2> QED
    BY <2>1 DEF Channel, SameSettings, Modes
<1>2. n \in Channel /\ SameSettings(n, ch)
  <2>1. [ch EXCEPT !.normal = Without(ch.normal, u)] \in Channel
    BY ChannelFields, WithLists, WithoutType
  <2> QED
    BY <2>1 DEF Channel, SameSettings, Modes
<1>3. SameSettings([ch EXCEPT !.invited = @ \ {u}], ch)
  BY DEF Channel, SameSettings, Modes
<1>4. RemoveUser(ch, u) = IF IsInvited(ch, nick[u])
                            THEN [ch EXCEPT !.invited = @ \ {u}]
                            ELSE Inherit(IF IsOperator(ch, nick[u]) THEN o ELSE n)
  BY DEF RemoveUser
<1> HIDE DEF o, n
<1> QED
  BY <1>1, <1>2, <1>3, <1>4, InheritKeeps DEF SameSettings

LEMMA RemoveUserEmpty ==
  ASSUME NEW ch \in Channel, NEW u \in Users, IsEmpty(ch)
  PROVE  IsEmpty(RemoveUser(ch, u))
<1>1. Without(ch.normal, u) = <<>>
  BY WithoutNothing DEF IsEmpty, ToSet
<1> DEFINE o == [ch EXCEPT !.operators = @ \ {u}]
           n == [ch EXCEPT !.normal = Without(@, u)]
           i == [ch EXCEPT !.invited = @ \ {u}]
<1>2. IsEmpty(o) /\ IsEmpty(n) /\ IsEmpty(i)
  BY <1>1 DEF Channel, IsEmpty
<1>3. RemoveUser(ch, u) = IF IsInvited(ch, nick[u])
                            THEN i ELSE Inherit(IF IsOperator(ch, nick[u]) THEN o ELSE n)
  BY DEF RemoveUser
<1> HIDE DEF o, n, i
<1> QED
  BY <1>2, <1>3 DEF Inherit, IsEmpty

LEMMA LevelsKeep ==
  ASSUME NEW ch \in Channel, NEW r \in Levels(ch)
  PROVE  SameSettings(r, ch) /\ (~ IsEmpty(ch) => ~ IsEmpty(r))
  BY ChannelFields, PromoteKeeps, DemoteKeeps DEF Levels, Nameable, SameSettings

-----------------------------------------------------------------------------
(* The actions *)

LiveInv == TypeInv /\ LiveChannels

\* A step is safe for LiveChannels when it keeps the names of the channels it
\* does not free, and frees exactly the empty ones.
LEMMA SettledLive ==
  ASSUME LiveInv, NEW cs \in [Ptrs -> Channel], chan' = Settle(cs),
         \A c \in Ptrs : cs[c].name = chan[c].name \/ IsEmpty(cs[c]),
         \A c \in Ptrs : ~ IsLive(chan[c]) => IsEmpty(cs[c])
  PROVE  LiveChannels'
<1>1. \A c \in Ptrs : chan'[c] = IF IsEmpty(cs[c]) THEN Freed ELSE cs[c]
  BY DEF Settle
<1>2. Freed.name = NoName /\ IsEmpty(Freed)
  BY DEF Freed, IsEmpty
<1>3. \A c \in Ptrs : IsLive(chan'[c]) <=> ~ IsEmpty(chan'[c])
  BY <1>1, <1>2 DEF IsLive
<1>4. ASSUME NEW c \in Ptrs, NEW d \in Ptrs,
             chan'[c].name = chan'[d].name, IsLive(chan'[c])
      PROVE  c = d
  <2>1. \A e \in {c, d} : chan'[e].name = chan[e].name
    BY <1>1, <1>2, <1>4 DEF IsLive
  <2> QED
    BY <2>1, <1>4 DEF LiveInv, LiveChannels, IsLive
<1> QED
  BY <1>3, <1>4 DEF LiveChannels

LEMMA OneChannelLive ==
  ASSUME LiveInv, NEW c \in Ptrs, NEW r, chan' = [chan EXCEPT ![c] = r],
         r.name = chan[c].name, IsEmpty(r) <=> IsEmpty(chan[c])
  PROVE  LiveChannels'
<1>1. \A d \in Ptrs : /\ chan'[d].name = chan[d].name
                      /\ IsEmpty(chan'[d]) <=> IsEmpty(chan[d])
  BY DEF LiveInv, TypeInv, ChannelsTypeOK
<1> QED
  BY <1>1 DEF LiveInv, LiveChannels, IsLive

LEMMA AddNormalKeeps ==
  ASSUME NEW ch \in Channel, NEW u \in Users
  PROVE  SameSettings(AddNormal(ch, u), ch) /\ ~ IsEmpty(AddNormal(ch, u))
<1>1. Append(ch.normal, u) # <<>>
  BY ChannelFields, AppendElements
<1> DEFINE inv == IF IsInvited(ch, nick[u]) THEN ch.invited \ {u} ELSE ch.invited
           seq == Append(ch.normal, u)
<1>2. AddNormal(ch, u) = [ch EXCEPT !.invited = inv, !.normal = seq]
  BY DEF AddNormal
<1> HIDE DEF inv
<1> QED
  BY <1>1, <1>2 DEF Channel, IsEmpty, SameSettings, Modes

LEMMA NewChannelKeeps ==
  ASSUME NEW n \in Names, NEW k \in Keys \cup {NoKey}, NEW u \in Users
  PROVE  NewChannel(n, k, u).name = n /\ ~ IsEmpty(NewChannel(n, k, u))
  BY DEF NewChannel, Freed, IsEmpty

LEMMA LeaveLive ==
  ASSUME LiveInv, NEW u \in Users, NEW cs \in SUBSET Ptrs, Leave(u, cs)
  PROVE  LiveChannels'
<1> DEFINE left == [c \in Ptrs |-> IF c \in cs THEN RemoveUser(chan[c], u) ELSE chan[c]]
<1>1. left \in [Ptrs -> Channel]
  BY RemoveUserType DEF LiveInv, TypeInv, ChannelsTypeOK
<1>2. \A c \in Ptrs : left[c].name = chan[c].name
  BY RemoveUserKeeps DEF LiveInv, TypeInv, ChannelsTypeOK, SameSettings
<1>3. \A c \in Ptrs : ~ IsLive(chan[c]) => IsEmpty(left[c])
  BY RemoveUserEmpty DEF LiveInv, TypeInv, ChannelsTypeOK, LiveChannels
<1>4. chan' = Settle(left)
  BY DEF Leave
<1> HIDE DEF left
<1> QED
  BY <1>1, <1>2, <1>3, <1>4, SettledLive

\* What the deletion of a user does to the channels, address by address.
LEMMA ReleasedCases ==
  ASSUME ChannelsTypeOK, NEW u \in Users, NEW c \in Ptrs
  PROVE  LET cs == Settle(Emptied(u)) IN
           /\ cs[c] \in Channel
           /\ \/ Released(u)[c] = cs[c] /\ Forget(Emptied(u))[u][c] = 0
              \/ Released(u)[c] = RemoveUser(cs[c], u)
              \/ Released(u)[c] = RemoveUser(RemoveUser(cs[c], u), u)
<1> DEFINE cs == Settle(Emptied(u))
           entries == Forget(Emptied(u))[u]
<1>1. Released(u) = [d \in Ptrs |->
        CASE entries[d] = 0 -> cs[d]
          [] entries[d] = 1 -> RemoveUser(cs[d], u)
          [] OTHER -> RemoveUser(RemoveUser(cs[d], u), u)]
  BY DEF Released
<1>2. cs[c] \in Channel
  BY EndTypes
<1> HIDE DEF cs, entries
<1>3. \/ Released(u)[c] = cs[c] /\ entries[c] = 0
      \/ Released(u)[c] = RemoveUser(cs[c], u)
      \/ Released(u)[c] = RemoveUser(RemoveUser(cs[c], u), u)
  BY <1>1
<1> QED
  BY <1>2, <1>3 DEF cs, entries

LEMMA QuitLive ==
  ASSUME LiveInv, NEW u \in Users, Quit(u) PROVE LiveChannels'
<1> DEFINE cs == Settle(Emptied(u))
<1>1. ChannelsTypeOK /\ Released(u) \in [Ptrs -> Channel]
  BY EndTypes DEF LiveInv, TypeInv
<1>2. Emptied(u) \in [Ptrs -> Channel] /\ cs \in [Ptrs -> Channel]
  BY EndTypes DEF LiveInv, TypeInv
<1>3. \A c \in Ptrs : /\ Emptied(u)[c].name = chan[c].name
                      /\ IsEmpty(chan[c]) => IsEmpty(Emptied(u)[c])
  BY <1>1, RemoveUserKeeps, RemoveUserEmpty DEF Emptied, ChannelsTypeOK, SameSettings
<1>4. IsEmpty(Freed) /\ Freed.name = NoName
  BY DEF Freed, IsEmpty
<1>5. ASSUME NEW c \in Ptrs
      PROVE  /\ cs[c].name = chan[c].name \/ IsEmpty(cs[c])
             /\ IsEmpty(chan[c]) => IsEmpty(cs[c])
  BY <1>3, <1>4 DEF Settle
<1> HIDE DEF cs
<1>6. ASSUME NEW c \in Ptrs
      PROVE  /\ Released(u)[c].name = cs[c].name
             /\ IsEmpty(cs[c]) => IsEmpty(Released(u)[c])
  <2>1. cs[c] \in Channel /\ RemoveUser(cs[c], u) \in Channel
    BY <1>2, RemoveUserType
  <2>2. \/ Released(u)[c] = cs[c]
        \/ Released(u)[c] = RemoveUser(cs[c], u)
        \/ Released(u)[c] = RemoveUser(RemoveUser(cs[c], u), u)
    BY <1>1, ReleasedCases DEF cs
  <2> QED
    BY <2>1, <2>2, RemoveUserKeeps, RemoveUserEmpty DEF SameSettings
<1>7. chan' = Settle(Released(u))
  BY DEF Quit
<1>8. \A c \in Ptrs : /\ Released(u)[c].name = chan[c].name \/ IsEmpty(Released(u)[c])
                      /\ IsEmpty(chan[c]) => IsEmpty(Released(u)[c])
  BY <1>5, <1>6
<1> QED
  BY <1>1, <1>7, <1>8, SettledLive DEF LiveInv, LiveChannels

LEMMA ClientStepLive ==
  ASSUME LiveInv, NEW u \in Users, ClientStep(u) PROVE LiveChannels'
<1> USE DEF LiveInv
<1>1. CASE UNCHANGED chan
  BY <1>1 DEF LiveChannels
<1>2. ASSUME NEW c \in Ptrs, NEW k, Join(u, c, k) PROVE LiveChannels'
  <2>1. chan[c] \in Channel /\ ~ IsEmpty(chan[c])
    BY <1>2 DEF TypeInv, ChannelsTypeOK, LiveChannels, Join
  <2> QED
    BY <1>2, <2>1, AddNormalKeeps, OneChannelLive DEF Join, SameSettings
<1>3. ASSUME NEW c \in Ptrs, NEW n \in Names, NEW k \in Keys \cup {NoKey},
             Create(u, c, n, k)
      PROVE  LiveChannels'
  <2> DEFINE r == NewChannel(n, k, u)
  <2>1. r.name = n /\ ~ IsEmpty(r) /\ n # NoName
    BY NewChannelKeeps, NamesAssumption
  <2>2. chan' = [chan EXCEPT ![c] = r] /\ \A d \in Ptrs : chan[d].name # n
    BY <1>3 DEF Create
  <2> HIDE DEF r
  <2>3. \A d \in Ptrs : chan'[d] = IF d = c THEN r ELSE chan[d]
    BY <2>2 DEF TypeInv, ChannelsTypeOK
  <2> QED
    BY <2>1, <2>2, <2>3 DEF LiveChannels, IsLive
<1>4. ASSUME NEW c \in Ptrs, Part(u, c) PROVE LiveChannels'
  BY <1>4, LeaveLive DEF Part
<1>5. CASE JoinZero(u)
  BY <1>5, LeaveLive DEF JoinZero, TypeInv, ChannelsTypeOK
<1>6. ASSUME NEW c \in Ptrs, NEW t \in Users, Invite(u, t, c) PROVE LiveChannels'
  <2> DEFINE r == [chan[c] EXCEPT !.invited = @ \cup {t}]
  <2>1. r.name = chan[c].name /\ (IsEmpty(r) <=> IsEmpty(chan[c]))
    BY DEF TypeInv, ChannelsTypeOK, Channel, IsEmpty
  <2>2. chan' = [chan EXCEPT ![c] = r]
    BY <1>6 DEF Invite
  <2> HIDE DEF r
  <2> QED
    BY <2>1, <2>2, OneChannelLive
<1>7. ASSUME NEW c \in Ptrs, Mode(u, c) PROVE LiveChannels'
  <2>1. PICK r \in Channel, ch \in Levels(chan[c]) :
          /\ chan' = [chan EXCEPT ![c] = r]
          /\ r.operators = ch.operators
          /\ r.normal = ch.normal
          /\ r.invited = ch.invited
          /\ r.name = ch.name
    BY <1>7, ModeChannel
  <2>2. chan[c] \in Channel /\ ~ IsEmpty(chan[c])
    BY <1>7 DEF TypeInv, ChannelsTypeOK, LiveChannels, Mode
  <2>3. ch.name = chan[c].name /\ ~ IsEmpty(ch)
    BY <2>2, LevelsKeep DEF SameSettings
  <2> QED
    BY <2>1, <2>2, <2>3, OneChannelLive DEF IsEmpty
<1>8. ASSUME NEW c \in Ptrs, NEW t \in Topics, Topic(u, c, t) PROVE LiveChannels'
  <2> DEFINE r == [chan[c] EXCEPT !.topic = t]
  <2>1. r.name = chan[c].name /\ (IsEmpty(r) <=> IsEmpty(chan[c]))
    BY DEF TypeInv, ChannelsTypeOK, Channel, IsEmpty
  <2>2. chan' = [chan EXCEPT ![c] = r]
    BY <1>8 DEF Topic
  <2> HIDE DEF r
  <2> QED
    BY <2>1, <2>2, OneChannelLive
<1>9. CASE Quit(u)
  BY <1>9, QuitLive
<1>10. CASE Identify(u) \/ QuitFaults(u)
  BY <1>1, <1>10 DEF Identify, chanVars, QuitFaults
<1>11. ASSUME NEW c \in Ptrs, NEW targets, Kick(u, c, targets) PROVE LiveChannels'
  BY <1>1, <1>11 DEF Kick
<1> QED
  BY <1>2, <1>3, <1>4, <1>5, <1>6, <1>7, <1>8, <1>9, <1>10, <1>11 DEF ClientStep

LEMMA KickStepLive == ASSUME LiveInv, KickStep PROVE LiveChannels'
<1>1. ASSUME NEW t \in Users, KickTarget(t) PROVE LiveChannels'
  BY <1>1, KickParts, LeaveLive DEF KickTarget, LiveInv
<1>2. CASE KickMiss \/ KickFreed
  BY <1>2 DEF KickMiss, KickFreed, LiveInv, LiveChannels
<1> QED
  BY <1>1, <1>2 DEF KickStep

LEMMA LiveInit == Init => LiveInv
<1> SUFFICES ASSUME Init PROVE LiveInv
  OBVIOUS
<1>1. ~ IsLive(Freed) /\ IsEmpty(Freed)
  BY DEF Freed, IsLive, IsEmpty
<1>2. \A c \in Ptrs : chan[c] = Freed
  BY DEF Init
<1> QED
  BY <1>1, <1>2, ChannelsInitType DEF LiveInv, LiveChannels

LEMMA LiveStep == LiveInv /\ [Next]_vars => LiveInv'
<1>1. LiveInv /\ [Next]_vars => TypeInv'
  BY ChannelsStepType DEF LiveInv
<1>2. LiveInv /\ UNCHANGED vars => LiveChannels'
  BY DEF LiveInv, LiveChannels, vars, chanVars
<1>3. LiveInv /\ Next => LiveChannels'
  BY <1>2, ClientStepLive, KickStepLive DEF Next, Halted
<1> QED
  BY <1>1, <1>2, <1>3 DEF LiveInv

\* A channel lives exactly as long as it has members, whatever the clients
\* send: every path that takes the last member away deletes it, and no name is
\* used twice.
THEOREM ChannelsLive == Spec => []LiveChannels
<1>1. LiveInv => LiveChannels
  BY DEF LiveInv
<1> QED
  BY <1>1, LiveInit, LiveStep, PTL DEF Spec

-----------------------------------------------------------------------------
(* What a user keeps about channels *)

\* Of channel ch at most the users in gone have left, and nobody has entered.
Shrinks(r, ch, gone) ==
  /\ Members(ch) \ gone \subseteq Members(r)
  /\ Members(r) \subseteq Members(ch)
  /\ r.invited \subseteq ch.invited
  /\ NoRepeats(r.normal)

Tracking ==
  /\ LiveInv
  /\ JoinedIsListed
  /\ InvitationsAreTracked
  /\ \A c \in Ptrs : NoRepeats(chan[c].normal)

-----------------------------------------------------------------------------
(* The operations, for any nicknames *)

\* A user finds itself.
LEMMA FindsItself ==
  ASSUME NEW u, NEW ch
  PROVE  /\ ~ IsOperator(ch, nick[u]) => u \notin ch.operators
         /\ ~ IsNormal(ch, nick[u]) => u \notin ToSet(ch.normal)
         /\ ~ IsInvited(ch, nick[u]) => u \notin ch.invited
         /\ ~ InChannel(ch, nick[u]) => u \notin Members(ch)
  BY DEF IsOperator, IsNormal, IsInvited, InChannel, Holds

LEMMA PromoteShrinks ==
  ASSUME NEW ch \in Channel, NoRepeats(ch.normal), NEW u \in Members(ch)
  PROVE  Shrinks(Promote(ch, u), ch, {})
<1> DEFINE seq == Without(ch.normal, u)
           ops == ch.operators \cup {u}
           r == [ch EXCEPT !.normal = seq, !.operators = ops]
<1>1. CASE IsOperator(ch, nick[u])
  BY <1>1 DEF Promote, Shrinks
<1>2. CASE ~ IsOperator(ch, nick[u])
  <2>1. Promote(ch, u) = r
    BY <1>2 DEF Promote
  <2>2. ToSet(seq) = ToSet(ch.normal) \ {u} /\ NoRepeats(seq)
    BY ChannelFields, WithoutElements
  <2> HIDE DEF seq
  <2>3. r.normal = seq /\ r.operators = ops /\ r.invited = ch.invited
    BY DEF Channel
  <2> HIDE DEF r
  <2> QED
    BY <2>1, <2>2, <2>3 DEF Members, Shrinks
<1> QED
  BY <1>1, <1>2

LEMMA DemoteShrinks ==
  ASSUME NEW ch \in Channel, NoRepeats(ch.normal), NEW u \in Members(ch)
  PROVE  Shrinks(Demote(ch, u), ch, {})
<1> DEFINE seq == Append(ch.normal, u)
           ops == ch.operators \ {u}
           r == [ch EXCEPT !.operators = ops, !.normal = seq]
<1>1. CASE IsNormal(ch, nick[u])
  BY <1>1 DEF Demote, Shrinks
<1>2. CASE ~ IsNormal(ch, nick[u])
  <2>1. Demote(ch, u) = r
    BY <1>2 DEF Demote
  <2>2. u \in Users /\ ToSet(seq) = ToSet(ch.normal) \cup {u} /\ NoRepeats(seq)
    BY <1>2, FindsItself, ChannelFields, AppendElements
  <2> HIDE DEF seq
  <2>3. r.normal = seq /\ r.operators = ops /\ r.invited = ch.invited
    BY DEF Channel
  <2> HIDE DEF r
  <2> QED
    BY <2>1, <2>2, <2>3 DEF Members, Shrinks
<1> QED
  BY <1>1, <1>2

LEMMA InheritShrinks ==
  ASSUME NEW ch \in Channel, NoRepeats(ch.normal) PROVE Shrinks(Inherit(ch), ch, {})
<1>1. ch.normal # <<>> => Head(ch.normal) \in Members(ch)
  BY ChannelFields, HeadElement DEF Members
<1> QED
  BY <1>1, PromoteShrinks DEF Inherit, Shrinks

LEMMA RemoveUserShrinks ==
  ASSUME NEW ch \in Channel, NoRepeats(ch.normal), NEW u \in Users
  PROVE  Shrinks(RemoveUser(ch, u), ch, {u})
<1> DEFINE seq == Without(ch.normal, u)
           ops == ch.operators \ {u}
           inv == ch.invited \ {u}
           o == [ch EXCEPT !.operators = ops]
           n == [ch EXCEPT !.normal = seq]
           i == [ch EXCEPT !.invited = inv]
<1>1. RemoveUser(ch, u) = IF IsInvited(ch, nick[u])
        THEN i ELSE Inherit(IF IsOperator(ch, nick[u]) THEN o ELSE n)
  BY DEF RemoveUser
<1>2. /\ ToSet(seq) = ToSet(ch.normal) \ {u}
      /\ NoRepeats(seq)
      /\ seq \in Seq(Users)
  BY ChannelFields, WithoutElements, WithoutType
<1>3. /\ i.operators = ch.operators /\ i.normal = ch.normal /\ i.invited = inv
      /\ o.operators = ops /\ o.normal = ch.normal /\ o.invited = ch.invited
      /\ n.operators = ch.operators /\ n.normal = seq /\ n.invited = ch.invited
  BY DEF Channel
<1>4. o \in Channel /\ n \in Channel
  BY <1>2, ChannelFields, WithLists
<1> HIDE DEF seq, o, n, i
<1>5. Shrinks(i, ch, {u}) /\ Shrinks(o, ch, {u}) /\ Shrinks(n, ch, {u})
  BY <1>2, <1>3 DEF Shrinks, Members
<1>6. Shrinks(Inherit(o), o, {}) /\ Shrinks(Inherit(n), n, {})
  BY <1>4, <1>5, InheritShrinks DEF Shrinks
<1>7. Shrinks(Inherit(o), ch, {u}) /\ Shrinks(Inherit(n), ch, {u})
  BY <1>5, <1>6 DEF Shrinks
<1> QED
  BY <1>1, <1>5, <1>7

-----------------------------------------------------------------------------
(* The actions *)

LEMMA TrackedChannel ==
  ASSUME Tracking, NEW c \in Ptrs
  PROVE  chan[c] \in Channel /\ NoRepeats(chan[c].normal) /\ ChannelsTypeOK
  BY DEF Tracking, LiveInv, TypeInv, ChannelsTypeOK

\* What is to be shown of a step.
LEMMA StepTracking ==
  ASSUME LiveInv',
         \A c \in Ptrs : NoRepeats(chan'[c].normal),
         \A v \in Users, c \in Ptrs : c \in joined'[v] => v \in Members(chan'[c]),
         \A v \in Users, c \in Ptrs :
           v \in chan'[c].invited => invites'[v][c] > 0 /\ v \notin Members(chan'[c]),
         joined' \in [Users -> SUBSET Ptrs]
  PROVE  Tracking'
  BY DEF Tracking, JoinedIsListed, InvitationsAreTracked

\* One channel changes.
LEMMA OneChannelTracking ==
  ASSUME Tracking, LiveInv', NEW c \in Ptrs, NEW r, chan' = [chan EXCEPT ![c] = r],
         NoRepeats(r.normal),
         \A v \in Users : c \in joined'[v] => v \in Members(r),
         \A v \in Users, d \in Ptrs \ {c} : d \in joined'[v] => d \in joined[v],
         \A v \in Users : v \in r.invited => invites'[v][c] > 0 /\ v \notin Members(r),
         \A v \in Users, d \in Ptrs \ {c} : invites'[v][d] = invites[v][d]
  PROVE  Tracking'
<1>1. \A d \in Ptrs : chan'[d] = IF d = c THEN r ELSE chan[d]
  BY TrackedChannel DEF ChannelsTypeOK
<1>2. \A d \in Ptrs : NoRepeats(chan'[d].normal)
  BY <1>1 DEF Tracking
<1>3. \A v \in Users, d \in Ptrs : d \in joined'[v] => v \in Members(chan'[d])
  BY <1>1 DEF Tracking, JoinedIsListed
<1>4. ASSUME NEW v \in Users, NEW d \in Ptrs, v \in chan'[d].invited
      PROVE  invites'[v][d] > 0 /\ v \notin Members(chan'[d])
  BY <1>1, <1>4 DEF Tracking, InvitationsAreTracked
<1>5. joined' \in [Users -> SUBSET Ptrs]
  BY DEF LiveInv, TypeInv, ChannelsTypeOK
<1> QED
  BY <1>2, <1>3, <1>4, <1>5, StepTracking

LEMMA JoinTracking ==
  ASSUME Tracking, LiveInv', NEW u \in Users, NEW c \in Ptrs, NEW k, Join(u, c, k)
  PROVE  Tracking'
<1> DEFINE ch == chan[c]
           inv == IF IsInvited(ch, nick[u]) THEN ch.invited \ {u} ELSE ch.invited
           seq == Append(ch.normal, u)
           r == [ch EXCEPT !.invited = inv, !.normal = seq]
<1>1. ch \in Channel /\ NoRepeats(ch.normal)
  BY TrackedChannel
<1>2. u \notin Members(ch)
  BY FindsItself DEF Join, Admits
<1>3. inv = ch.invited \ {u}
  BY FindsItself
<1>4. ToSet(seq) = ToSet(ch.normal) \cup {u} /\ NoRepeats(seq)
  BY <1>1, <1>2, ChannelFields, AppendElements DEF Members
<1>5. chan' = [chan EXCEPT ![c] = r]
  BY DEF Join, AddNormal
<1>6. r.operators = ch.operators /\ r.normal = seq /\ r.invited = inv
  BY <1>1 DEF Channel
<1> HIDE DEF r, seq, inv
<1>7. Members(r) = Members(ch) \cup {u}
  BY <1>4, <1>6 DEF Members
<1>8. \A v \in Users, d \in Ptrs :
        d \in joined'[v] <=> d \in joined[v] \/ (v = u /\ d = c)
  BY TrackedChannel DEF Join, ChannelsTypeOK
<1>9. \A v \in Users : c \in joined'[v] => v \in Members(r)
  BY <1>7, <1>8 DEF Tracking, JoinedIsListed
<1>10. \A v \in Users : v \in r.invited => invites'[v][c] > 0 /\ v \notin Members(r)
  BY <1>3, <1>6, <1>7 DEF Join, Tracking, InvitationsAreTracked
<1> QED
  BY <1>4, <1>5, <1>6, <1>8, <1>9, <1>10, OneChannelTracking DEF Join

LEMMA CreateTracking ==
  ASSUME Tracking, LiveInv', NEW u \in Users, NEW c \in Ptrs, NEW n \in Names,
         NEW k \in Keys \cup {NoKey}, Create(u, c, n, k)
  PROVE  Tracking'
<1> DEFINE r == NewChannel(n, k, u)
<1>1. r.operators = {u} /\ r.normal = <<>> /\ r.invited = {}
  BY DEF NewChannel, Freed
<1>2. chan' = [chan EXCEPT ![c] = r]
  BY DEF Create
<1> HIDE DEF r
<1>3. Members(r) = {u} /\ NoRepeats(r.normal)
  BY <1>1 DEF Members, ToSet, NoRepeats
<1>4. Members(chan[c]) = {}
  BY TrackedChannel, EmptyMembers DEF Create, Tracking, LiveInv, LiveChannels
<1>5. \A v \in Users, d \in Ptrs :
        d \in joined'[v] <=> d \in joined[v] \/ (v = u /\ d = c)
  BY TrackedChannel DEF Create, ChannelsTypeOK
<1>6. \A v \in Users : c \in joined'[v] => v \in Members(r)
  BY <1>3, <1>4, <1>5 DEF Tracking, JoinedIsListed
<1>7. UNCHANGED invites
  BY DEF Create
<1>8. \A v \in Users : v \in r.invited => invites'[v][c] > 0 /\ v \notin Members(r)
  BY <1>1
<1>9. \A v \in Users, d \in Ptrs \ {c} : d \in joined'[v] => d \in joined[v]
  BY <1>5
<1>10. \A v \in Users, d \in Ptrs \ {c} : invites'[v][d] = invites[v][d]
  BY <1>7
<1>11. NoRepeats(r.normal)
  BY <1>3
<1> QED
  BY <1>2, <1>6, <1>8, <1>9, <1>10, <1>11, OneChannelTracking

LEMMA InviteTracking ==
  ASSUME Tracking, LiveInv', NEW u \in Users, NEW t \in Users, NEW c \in Ptrs,
         Invite(u, t, c)
  PROVE  Tracking'
<1> DEFINE ch == chan[c]
           inv == ch.invited \cup {t}
           r == [ch EXCEPT !.invited = inv]
<1>1. ch \in Channel /\ NoRepeats(ch.normal)
  BY TrackedChannel
<1>2. t \notin Members(ch)
  BY FindsItself DEF Invite
<1>3. chan' = [chan EXCEPT ![c] = r]
  BY DEF Invite
<1>4. r.operators = ch.operators /\ r.normal = ch.normal /\ r.invited = inv
  BY <1>1 DEF Channel
<1> HIDE DEF r
<1>5. Members(r) = Members(ch)
  BY <1>4 DEF Members
<1>6. \A v \in Users, d \in Ptrs :
        /\ invites[v][d] \in Nat
        /\ invites'[v][d] = IF v = t /\ d = c THEN invites[v][d] + 1 ELSE invites[v][d]
  BY TrackedChannel DEF Invite, ChannelsTypeOK
<1>7. \A v \in Users : v \in r.invited => invites'[v][c] > 0 /\ v \notin Members(r)
  BY <1>2, <1>4, <1>5, <1>6 DEF Tracking, InvitationsAreTracked
<1>8. \A v \in Users : c \in joined'[v] => v \in Members(r)
  BY <1>5 DEF Invite, Tracking, JoinedIsListed
<1>9. joined' = joined
  BY DEF Invite
<1> HIDE DEF ch, inv
<1> QED
  BY <1>1, <1>3, <1>4, <1>6, <1>7, <1>8, <1>9, OneChannelTracking

\* The members and the guests of a channel stay.
LEMMA SameMembersTracking ==
  ASSUME Tracking, LiveInv', NEW c \in Ptrs, NEW r, chan' = [chan EXCEPT ![c] = r],
         NoRepeats(r.normal), Members(r) = Members(chan[c]),
         r.invited \subseteq chan[c].invited, UNCHANGED <<joined, invites>>
  PROVE  Tracking'
  BY OneChannelTracking DEF Tracking, JoinedIsListed, InvitationsAreTracked

LEMMA ModeTracking ==
  ASSUME Tracking, LiveInv', NEW u \in Users, NEW c \in Ptrs, Mode(u, c) PROVE Tracking'
<1>1. PICK r \in Channel, ch \in Levels(chan[c]) :
        /\ chan' = [chan EXCEPT ![c] = r]
        /\ r.operators = ch.operators
        /\ r.normal = ch.normal
        /\ r.invited = ch.invited
        /\ r.name = ch.name
  BY ModeChannel DEF Tracking, LiveInv
<1>2. Shrinks(ch, chan[c], {})
  BY TrackedChannel, PromoteShrinks, DemoteShrinks DEF Levels, Nameable, Shrinks
<1>3. Shrinks(r, chan[c], {})
  BY <1>1, <1>2 DEF Shrinks, Members
<1>4. UNCHANGED <<joined, invites>>
  BY DEF Mode
<1>5. /\ NoRepeats(r.normal) /\ Members(r) = Members(chan[c])
      /\ r.invited \subseteq chan[c].invited
  BY <1>3 DEF Shrinks
<1> QED
  BY <1>1, <1>4, <1>5, SameMembersTracking

LEMMA TopicTracking ==
  ASSUME Tracking, LiveInv', NEW u \in Users, NEW c \in Ptrs, NEW t \in Topics,
         Topic(u, c, t)
  PROVE  Tracking'
<1> DEFINE r == [chan[c] EXCEPT !.topic = t]
<1>1. /\ r.operators = chan[c].operators
      /\ r.normal = chan[c].normal
      /\ r.invited = chan[c].invited
  BY TrackedChannel DEF Channel
<1>2. chan' = [chan EXCEPT ![c] = r] /\ UNCHANGED <<joined, invites>>
  BY DEF Topic
<1> HIDE DEF r
<1> QED
  BY <1>1, <1>2, TrackedChannel, SameMembersTracking DEF Members

\* Empty channels are freed.
LEMMA SettledShrinks ==
  ASSUME NEW ch \in Channel, NoRepeats(ch.normal)
  PROVE  LET r == IF IsEmpty(ch) THEN Freed ELSE ch IN
           /\ r \in Channel
           /\ Shrinks(r, ch, {})
           /\ IsEmpty(ch) => r.invited = {}
<1>1. Freed.operators = {} /\ Freed.normal = <<>> /\ Freed.invited = {}
  BY DEF Freed
<1>2. Members(Freed) = {} /\ NoRepeats(<<>>)
  BY <1>1 DEF Members, ToSet, NoRepeats
<1> QED
  BY <1>1, <1>2, EmptyMembers, FreedType DEF Shrinks

LEMMA LeaveTracking ==
  ASSUME Tracking, LiveInv', NEW u \in Users, NEW cs \in SUBSET Ptrs, Leave(u, cs)
  PROVE  Tracking'
<1> DEFINE left == [c \in Ptrs |-> IF c \in cs THEN RemoveUser(chan[c], u) ELSE chan[c]]
<1>1. ASSUME NEW c \in Ptrs
      PROVE  /\ left[c] \in Channel
             /\ Shrinks(left[c], chan[c], IF c \in cs THEN {u} ELSE {})
  BY TrackedChannel, RemoveUserType, RemoveUserShrinks DEF Shrinks
<1>2. chan' = Settle(left) /\ invites' = Forget(left)
  BY DEF Leave
<1>3. \A c \in Ptrs, v \in Users :
        c \in joined'[v] <=> c \in joined[v] /\ ~ (v = u /\ c \in cs)
  BY TrackedChannel DEF Leave, ChannelsTypeOK
<1> HIDE DEF left
<1>4. \A c \in Ptrs : chan'[c] = IF IsEmpty(left[c]) THEN Freed ELSE left[c]
  BY <1>2 DEF Settle
<1>5. \A c \in Ptrs : /\ Shrinks(chan'[c], left[c], {})
                      /\ IsEmpty(left[c]) => chan'[c].invited = {}
  BY <1>1, <1>4, SettledShrinks DEF Shrinks
<1>6. \A v \in Users, c \in Ptrs : c \in joined'[v] => v \in Members(chan'[c])
  BY <1>1, <1>3, <1>5 DEF Tracking, JoinedIsListed, Shrinks
<1>7. ASSUME NEW v \in Users, NEW c \in Ptrs, v \in chan'[c].invited
      PROVE  invites'[v][c] > 0 /\ v \notin Members(chan'[c])
  <2>1. ~ IsEmpty(left[c]) /\ v \in chan[c].invited
    BY <1>1, <1>5, <1>7 DEF Shrinks
  <2>2. invites'[v][c] = invites[v][c]
    BY <1>2, <2>1 DEF Forget
  <2>3. Members(chan'[c]) \subseteq Members(chan[c])
    BY <1>1, <1>5 DEF Shrinks
  <2> QED
    BY <2>1, <2>2, <2>3 DEF Tracking, InvitationsAreTracked
<1>8. joined' \in [Users -> SUBSET Ptrs]
  BY DEF LiveInv, TypeInv, ChannelsTypeOK
<1> QED
  BY <1>5, <1>6, <1>7, <1>8, StepTracking DEF Shrinks

\* What the deletion of a user leaves of a channel.
LEMMA ReleasedShrinks ==
  ASSUME Tracking, NEW u \in Users, NEW c \in Ptrs
  PROVE  /\ Released(u)[c] \in Channel
         /\ Shrinks(Released(u)[c], chan[c], {u})
         /\ Released(u)[c].invited # {} => ~ IsEmpty(Emptied(u)[c])
<1> DEFINE e == Emptied(u)[c]
           s == IF IsEmpty(e) THEN Freed ELSE e
           r == Released(u)[c]
<1>1. e \in Channel /\ r \in Channel
  BY TrackedChannel, EndTypes
<1>2. e = IF c \in joined[u] THEN RemoveUser(chan[c], u) ELSE chan[c]
  BY DEF Emptied
<1>3. Shrinks(e, chan[c], {u})
  BY <1>2, TrackedChannel, RemoveUserShrinks DEF Shrinks
<1>4. s = Settle(Emptied(u))[c]
  BY DEF Settle
<1>5. \/ r = s
      \/ r = RemoveUser(s, u)
      \/ r = RemoveUser(RemoveUser(s, u), u)
  BY <1>4, TrackedChannel, ReleasedCases
<1> HIDE DEF e, r
<1>6. s \in Channel /\ Shrinks(s, e, {}) /\ (IsEmpty(e) => s.invited = {})
  BY <1>1, <1>3, SettledShrinks DEF Shrinks
<1> HIDE DEF s
<1>7. RemoveUser(s, u) \in Channel /\ Shrinks(RemoveUser(s, u), s, {u})
  BY <1>6, RemoveUserType, RemoveUserShrinks DEF Shrinks
<1>8. Shrinks(RemoveUser(RemoveUser(s, u), u), RemoveUser(s, u), {u})
  BY <1>7, RemoveUserShrinks DEF Shrinks
<1>9. Shrinks(r, s, {u})
  BY <1>5, <1>6, <1>7, <1>8 DEF Shrinks
<1> QED
  BY <1>1, <1>3, <1>6, <1>9 DEF Shrinks, e, r

LEMMA QuitTracking ==
  ASSUME Tracking, LiveInv', NEW u \in Users, Quit(u) PROVE Tracking'
<1>1. ASSUME NEW c \in Ptrs
      PROVE  /\ Shrinks(chan'[c], chan[c], {u})
             /\ u \notin chan'[c].invited
             /\ chan'[c].invited # {} => ~ IsEmpty(Emptied(u)[c]) /\ ~ IsEmpty(Released(u)[c])
  <2> DEFINE r == Released(u)[c]
  <2>1. /\ r \in Channel
        /\ Shrinks(r, chan[c], {u})
        /\ r.invited # {} => ~ IsEmpty(Emptied(u)[c])
    BY ReleasedShrinks
  <2>2. u \notin r.invited
    BY DEF Quit, StillListed
  <2>3. chan'[c] = IF IsEmpty(r) THEN Freed ELSE r
    BY DEF Quit, Settle
  <2> HIDE DEF r
  <2>4. Shrinks(chan'[c], r, {}) /\ (IsEmpty(r) => chan'[c].invited = {})
    BY <2>1, <2>3, SettledShrinks DEF Shrinks
  <2> QED
    BY <2>1, <2>2, <2>4 DEF Shrinks, r
<1>2. \A v \in Users : joined'[v] = IF v = u THEN {} ELSE joined[v]
  BY DEF Quit, Tracking, LiveInv, TypeInv, ChannelsTypeOK
<1>3. \A v \in Users, c \in Ptrs : c \in joined'[v] => v \in Members(chan'[c])
  BY <1>1, <1>2 DEF Tracking, JoinedIsListed, Shrinks
<1>4. ASSUME NEW v \in Users, NEW c \in Ptrs, v \in chan'[c].invited
      PROVE  invites'[v][c] > 0 /\ v \notin Members(chan'[c])
  <2>1. v # u /\ v \in chan[c].invited /\ Members(chan'[c]) \subseteq Members(chan[c])
    BY <1>1, <1>4 DEF Shrinks
  <2>2. invites'[v][c] = invites[v][c]
    BY <1>1, <1>4, <2>1 DEF Quit, EntriesAfter
  <2> QED
    BY <2>1, <2>2 DEF Tracking, InvitationsAreTracked
<1>5. joined' \in [Users -> SUBSET Ptrs]
  BY DEF LiveInv, TypeInv, ChannelsTypeOK
<1> QED
  BY <1>1, <1>3, <1>4, <1>5, StepTracking DEF Shrinks

LEMMA SameTracking ==
  ASSUME Tracking, LiveInv', UNCHANGED <<chan, joined, invites>> PROVE Tracking'
  BY DEF Tracking, JoinedIsListed, InvitationsAreTracked

LEMMA ClientStepTracking ==
  ASSUME Tracking, LiveInv', NEW u \in Users, ClientStep(u) PROVE Tracking'
<1>1. CASE Identify(u) \/ QuitFaults(u)
  BY <1>1, SameTracking DEF Identify, chanVars, QuitFaults
<1>2. CASE \E c \in Ptrs, k \in Keys \cup {NoKey} : Join(u, c, k)
  BY <1>2, JoinTracking
<1>3. CASE \E c \in Ptrs, n \in Names, k \in Keys \cup {NoKey} : Create(u, c, n, k)
  BY <1>3, CreateTracking
<1>4. ASSUME NEW c \in Ptrs, Part(u, c) PROVE Tracking'
  BY <1>4, LeaveTracking DEF Part
<1>5. CASE JoinZero(u)
  BY <1>5, LeaveTracking DEF JoinZero, Tracking, LiveInv, TypeInv, ChannelsTypeOK
<1>6. CASE \E c \in Ptrs, t \in Users : Invite(u, t, c)
  BY <1>6, InviteTracking
<1>7. CASE \E c \in Ptrs : Mode(u, c)
  BY <1>7, ModeTracking
<1>8. CASE \E c \in Ptrs, t \in Topics : Topic(u, c, t)
  BY <1>8, TopicTracking
<1>9. ASSUME NEW c \in Ptrs, NEW targets, Kick(u, c, targets) PROVE Tracking'
  BY <1>9, SameTracking DEF Kick
<1>10. CASE Quit(u)
  BY <1>10, QuitTracking
<1> QED
  BY <1>1, <1>2, <1>3, <1>4, <1>5, <1>6, <1>7, <1>8, <1>9, <1>10 DEF ClientStep

LEMMA KickStepTracking == ASSUME Tracking, LiveInv', KickStep PROVE Tracking'
<1>1. ASSUME NEW t \in Users, KickTarget(t) PROVE Tracking'
  BY <1>1, KickParts, LeaveTracking DEF KickTarget, Tracking, LiveInv
<1>2. CASE KickMiss \/ KickFreed
  BY <1>2, SameTracking DEF KickMiss, KickFreed
<1> QED
  BY <1>1, <1>2 DEF KickStep

LEMMA TrackingInit == Init => Tracking
<1> SUFFICES ASSUME Init PROVE Tracking
  OBVIOUS
<1>1. Freed.operators = {} /\ Freed.normal = <<>> /\ Freed.invited = {}
  BY DEF Freed
<1>2. NoRepeats(<<>>)
  BY DEF NoRepeats
<1>3. \A c \in Ptrs : chan[c] = Freed
  BY DEF Init
<1> QED
  BY <1>1, <1>2, <1>3, LiveInit DEF Init, Tracking, JoinedIsListed, InvitationsAreTracked

LEMMA TrackingStep == Tracking /\ [Next]_vars => Tracking'
<1> SUFFICES ASSUME Tracking, [Next]_vars PROVE Tracking'
  OBVIOUS
<1>1. LiveInv'
  BY LiveStep DEF Tracking
<1>2. CASE UNCHANGED vars
  BY <1>1, <1>2, SameTracking DEF vars, chanVars
<1>3. CASE Next
  BY <1>1, <1>2, <1>3, ClientStepTracking, KickStepTracking DEF Next, Halted
<1> QED
  BY <1>2, <1>3

LEMMA TrackingInvariant == Spec => []Tracking
  BY TrackingInit, TrackingStep, PTL DEF Spec

\* Whatever the clients send, every entry of _joinedChannels leads to a channel
\* that is alive and lists the user: PART, JOIN 0, KICK and the end of a client
\* never go through it into freed memory.
THEOREM JoinedStaysListed == Spec => []JoinedIsListed
<1>1. Tracking => JoinedIsListed
  BY DEF Tracking
<1> QED
  BY <1>1, TrackingInvariant, PTL

\* Whatever the clients send, whoever a channel lists as invited has an entry
\* for it and is not a member: a User that is deleted finds every list of
\* invited users that it is in.
THEOREM InvitationsStayTracked == Spec => []InvitationsAreTracked
<1>1. Tracking => InvitationsAreTracked
  BY DEF Tracking
<1> QED
  BY <1>1, TrackingInvariant, PTL

-----------------------------------------------------------------------------
(* Departures, for any nicknames *)

\* A channel that needs no heir.
Led(ch) == ch.operators # {} \/ IsEmpty(ch)

\* What channel ch has become needs no heir, unless nobody has moved.
Settled(r, ch) == Led(r) \/ (r.operators = ch.operators /\ r.normal = ch.normal)

LEMMA InheritLeads == ASSUME NEW ch \in Channel PROVE Led(Inherit(ch))
<1> DEFINE h == Head(ch.normal)
           seq == Without(ch.normal, h)
           r == [ch EXCEPT !.normal = seq, !.operators = ch.operators \cup {h}]
<1>1. CASE ch.operators = {} /\ ch.normal # <<>>
  <2>1. Promote(ch, h) = r
    BY <1>1 DEF Promote, IsOperator, Holds
  <2> HIDE DEF seq, h
  <2>2. r.operators # {}
    BY DEF Channel
  <2> QED
    BY <1>1, <2>1, <2>2 DEF Inherit, Led, h
<1>2. CASE ~ (ch.operators = {} /\ ch.normal # <<>>)
  BY <1>2 DEF Inherit, Led, IsEmpty
<1> QED
  BY <1>1, <1>2

LEMMA RemoveUserSettles ==
  ASSUME NEW ch \in Channel, NEW u \in Users, NEW old, Settled(ch, old)
  PROVE  Settled(RemoveUser(ch, u), old)
<1> DEFINE seq == Without(ch.normal, u)
           ops == ch.operators \ {u}
           inv == ch.invited \ {u}
           o == [ch EXCEPT !.operators = ops]
           n == [ch EXCEPT !.normal = seq]
           i == [ch EXCEPT !.invited = inv]
<1>1. RemoveUser(ch, u) = IF IsInvited(ch, nick[u])
        THEN i ELSE Inherit(IF IsOperator(ch, nick[u]) THEN o ELSE n)
  BY DEF RemoveUser
<1>2. seq \in Seq(Users) /\ ops \in SUBSET Users
  BY ChannelFields, WithoutType
<1> HIDE DEF seq, ops, inv
<1>3. o \in Channel /\ n \in Channel
  BY <1>2, ChannelFields, WithLists
<1>4. i.operators = ch.operators /\ i.normal = ch.normal
  BY DEF Channel
<1>5. Settled(i, old)
  BY <1>4 DEF Settled, Led, IsEmpty
<1> HIDE DEF o, n, i
<1> QED
  BY <1>1, <1>3, <1>5, InheritLeads DEF Settled

LEMMA LeaveSettles ==
  ASSUME ChannelsTypeOK, NEW u \in Users, NEW cs \in SUBSET Ptrs, Leave(u, cs),
         NEW c \in Ptrs
  PROVE  Settled(chan'[c], chan[c])
<1> DEFINE r == IF c \in cs THEN RemoveUser(chan[c], u) ELSE chan[c]
<1>1. chan[c] \in Channel /\ Settled(chan[c], chan[c])
  BY DEF ChannelsTypeOK, Settled
<1>2. Settled(r, chan[c])
  BY <1>1, RemoveUserSettles
<1>3. chan'[c] = IF IsEmpty(r) THEN Freed ELSE r
  BY DEF Leave, Settle
<1> HIDE DEF r
<1>4. IsEmpty(Freed)
  BY DEF IsEmpty, Freed
<1> QED
  BY <1>2, <1>3, <1>4 DEF Settled, Led

LEMMA QuitSettles ==
  ASSUME ChannelsTypeOK, NEW u \in Users, Quit(u), NEW c \in Ptrs
  PROVE  Settled(chan'[c], chan[c])
<1> DEFINE e == Emptied(u)[c]
           s == IF IsEmpty(e) THEN Freed ELSE e
           r == Released(u)[c]
<1>1. chan[c] \in Channel /\ Settled(chan[c], chan[c])
  BY DEF ChannelsTypeOK, Settled
<1>2. e = IF c \in joined[u] THEN RemoveUser(chan[c], u) ELSE chan[c]
  BY DEF Emptied
<1>3. e \in Channel
  BY EndTypes
<1>4. s = Settle(Emptied(u))[c]
  BY DEF Settle
<1>5. \/ r = s
      \/ r = RemoveUser(s, u)
      \/ r = RemoveUser(RemoveUser(s, u), u)
  BY <1>4, ReleasedCases
<1>6. chan'[c] = IF IsEmpty(r) THEN Freed ELSE r
  BY DEF Quit, Settle
<1>7. IsEmpty(Freed) /\ Freed \in Channel
  BY FreedType DEF IsEmpty, Freed
<1> HIDE DEF e, r
<1>8. s \in Channel /\ Settled(s, chan[c])
  BY <1>1, <1>2, <1>3, <1>7, RemoveUserSettles DEF Settled, Led
<1> HIDE DEF s
<1>9. RemoveUser(s, u) \in Channel /\ Settled(RemoveUser(s, u), chan[c])
  BY <1>8, RemoveUserType, RemoveUserSettles
<1>10. Settled(RemoveUser(RemoveUser(s, u), u), chan[c])
  BY <1>9, RemoveUserSettles
<1> QED
  BY <1>5, <1>6, <1>7, <1>8, <1>9, <1>10 DEF Settled, Led

\* The steps in which nobody leaves.
LEMMA OthersKeepMembers ==
  ASSUME Tracking, Next, NEW c \in Ptrs,
         \A u \in Users : ~ Quit(u) /\ \A cs \in SUBSET Ptrs : ~ Leave(u, cs)
  PROVE  Members(chan[c]) \subseteq Members(chan'[c])
<1>1. ChannelsTypeOK /\ LiveInv /\ LiveInv'
  BY LiveStep DEF Tracking, LiveInv, TypeInv
<1>2. CASE UNCHANGED chan
  BY <1>2
<1>3. ASSUME NEW u \in Users, NEW d \in Ptrs, NEW k, Join(u, d, k)
      PROVE  Members(chan[c]) \subseteq Members(chan'[c])
  <2> DEFINE ch == chan[d]
             inv == IF IsInvited(ch, nick[u]) THEN ch.invited \ {u} ELSE ch.invited
             seq == Append(ch.normal, u)
             r == [ch EXCEPT !.invited = inv, !.normal = seq]
  <2>1. chan' = [chan EXCEPT ![d] = r] /\ ch \in Channel
    BY <1>1, <1>3 DEF Join, AddNormal, ChannelsTypeOK
  <2>2. ToSet(seq) = ToSet(ch.normal) \cup {u}
    BY <2>1, ChannelFields, AppendElements
  <2>3. r.operators = ch.operators /\ r.normal = seq
    BY <2>1 DEF Channel
  <2> HIDE DEF r, seq
  <2>4. Members(ch) \subseteq Members(r)
    BY <2>2, <2>3 DEF Members
  <2> QED
    BY <1>1, <2>1, <2>4 DEF ChannelsTypeOK
<1>4. ASSUME NEW u \in Users, NEW d \in Ptrs, NEW n \in Names, NEW k, Create(u, d, n, k)
      PROVE  Members(chan[c]) \subseteq Members(chan'[c])
  <2>1. Members(chan[d]) = {}
    BY <1>1, <1>4, EmptyMembers DEF Create, LiveInv, LiveChannels, ChannelsTypeOK
  <2> QED
    BY <1>1, <1>4, <2>1 DEF Create, ChannelsTypeOK
<1>5. ASSUME NEW u \in Users, NEW t \in Users, NEW d \in Ptrs, Invite(u, t, d)
      PROVE  Members(chan[c]) \subseteq Members(chan'[c])
  <2> DEFINE inv == chan[d].invited \cup {t}
             r == [chan[d] EXCEPT !.invited = inv]
  <2>1. chan' = [chan EXCEPT ![d] = r] /\ chan[d] \in Channel
    BY <1>1, <1>5 DEF Invite, ChannelsTypeOK
  <2>2. r.operators = chan[d].operators /\ r.normal = chan[d].normal
    BY <2>1 DEF Channel
  <2> HIDE DEF r
  <2> QED
    BY <1>1, <2>1, <2>2 DEF Members, ChannelsTypeOK
<1>6. ASSUME NEW u \in Users, NEW d \in Ptrs, Mode(u, d)
      PROVE  Members(chan[c]) \subseteq Members(chan'[c])
  <2>1. PICK r \in Channel, ch \in Levels(chan[d]) :
          /\ chan' = [chan EXCEPT ![d] = r]
          /\ r.operators = ch.operators
          /\ r.normal = ch.normal
    BY <1>1, <1>6, ModeChannel DEF LiveInv
  <2>2. Shrinks(ch, chan[d], {})
    BY TrackedChannel, PromoteShrinks, DemoteShrinks DEF Levels, Nameable, Shrinks
  <2>3. Members(chan[d]) \subseteq Members(r)
    BY <2>1, <2>2 DEF Shrinks, Members
  <2> QED
    BY <1>1, <2>1, <2>3 DEF ChannelsTypeOK
<1>7. ASSUME NEW u \in Users, NEW d \in Ptrs, NEW t \in Topics, Topic(u, d, t)
      PROVE  Members(chan[c]) \subseteq Members(chan'[c])
  <2> DEFINE r == [chan[d] EXCEPT !.topic = t]
  <2>1. chan' = [chan EXCEPT ![d] = r] /\ chan[d] \in Channel
    BY <1>1, <1>7 DEF Topic, ChannelsTypeOK
  <2>2. r.operators = chan[d].operators /\ r.normal = chan[d].normal
    BY <2>1 DEF Channel
  <2> HIDE DEF r
  <2> QED
    BY <1>1, <2>1, <2>2 DEF Members, ChannelsTypeOK
<1>8. ASSUME NEW u \in Users, ClientStep(u)
      PROVE  Members(chan[c]) \subseteq Members(chan'[c])
  <2>1. CASE Identify(u) \/ QuitFaults(u)
    BY <2>1 DEF Identify, chanVars, QuitFaults
  <2>2. CASE \E d \in Ptrs, targets \in TargetLists : Kick(u, d, targets)
    BY <2>2 DEF Kick
  <2>3. CASE JoinZero(u) \/ \E d \in Ptrs : Part(u, d)
    BY <1>1, <2>3 DEF JoinZero, Part, ChannelsTypeOK
  <2> QED
    BY <1>3, <1>4, <1>5, <1>6, <1>7, <1>8, <2>1, <2>2, <2>3 DEF ClientStep
<1>9. CASE KickStep
  <2>1. ASSUME NEW t \in Users, KickTarget(t) PROVE FALSE
    BY <1>1, <2>1, KickParts DEF KickTarget, LiveInv
  <2> QED
    BY <1>9, <2>1 DEF KickStep, KickMiss, KickFreed
<1> QED
  BY <1>8, <1>9 DEF Next, Halted, vars, chanVars

\* What is to be shown of a step: whoever leaves, and however the tests by
\* nickname went, the channel needs no heir, or nobody has moved.
LEMMA DepartureStep ==
  ASSUME Tracking, [Next]_vars, NEW c \in Ptrs, IsLive(chan'[c]),
         ~ Members(chan[c]) \subseteq Members(chan'[c])
  PROVE  chan'[c].operators # {}
<1>1. ChannelsTypeOK /\ LiveChannels'
  BY LiveStep DEF Tracking, LiveInv, TypeInv
<1>2. Next
  BY DEF vars, chanVars
<1>3. PICK u \in Users : Quit(u) \/ \E cs \in SUBSET Ptrs : Leave(u, cs)
  BY <1>2, OthersKeepMembers
<1>4. Settled(chan'[c], chan[c])
  BY <1>1, <1>3, LeaveSettles, QuitSettles
<1>5. ~ IsEmpty(chan'[c])
  BY <1>1 DEF LiveChannels
<1> QED
  BY <1>4, <1>5 DEF Settled, Led, Members

\* Whatever the clients send, and whoever it is that a test by nickname finds, a
\* channel that somebody has left is not without an operator.
THEOREM DeparturesLeaveOperator == Spec => DepartureLeavesOperator
<1>1. Tracking /\ [Next]_vars =>
        [\A c \in Ptrs :
           IsLive(chan[c]) /\ IsLive(chan'[c])
             /\ ~ Members(chan[c]) \subseteq Members(chan'[c])
             => chan'[c].operators # {}]_vars
  BY DepartureStep
<1> QED
  BY <1>1, TrackingInvariant, PTL DEF Spec, DepartureLeavesOperator
=============================================================================
