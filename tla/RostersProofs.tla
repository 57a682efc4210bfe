---------------------------- MODULE RostersProofs ----------------------------
(***************************************************************************)
(* Proofs about Rosters, for any number of clients and channels: what the  *)
(* members of a channel have been told of each other is true.              *)
(*                                                                         *)
(* The messages name clients by their nicknames, so the invariant adds to  *)
(* Agreement that a nickname is one of Nicks, or none yet; then members    *)
(* are told apart by their names.  What one channel and its rosters are to *)
(* each other (Right) is stated of any list of members and operators, so   *)
(* that the lemmas about joining, leaving and levels know of no command.   *)
(***************************************************************************)
EXTENDS Rosters, SafetyProofs

\* Every client has a nickname that NICK accepts, or none yet.
PlainNicks == \A u \in Connected : nick[u] = Star \/ \E n \in Nicks : nick[u] = <<n>>

\* The rosters r of one channel are right about these members and operators.
Right(r, members, ops) ==
  /\ \A v \in members :
       /\ r[v].names = {Name(w) : w \in members}
       /\ r[v].ops \subseteq {Name(w) : w \in ops}
       /\ \A x, y \in ops : Name(x) \notin r[v].ops /\ Name(y) \notin r[v].ops => x = y
  /\ \A v \in Users \ members : r[v] = Unknown

\* The rosters of channel c.
At(c) == [v \in Users |-> roster[v][c]]

RosterInv ==
  /\ Agreement
  /\ LiveInv
  /\ PlainNicks
  /\ roster \in [Users -> [Ptrs -> Roster]]
  /\ \A c \in Ptrs : Right(At(c), Members(chan[c]), chan[c].operators)

-----------------------------------------------------------------------------
(* Names *)

\* A set of clients that are told apart by their names.
Distinct(S) ==
  /\ \A w \in S : Name(w) \in Nicks
  /\ \A v, w \in S : Name(v) = Name(w) => v = w

LEMMA NamesAreDistinct == Agreement /\ PlainNicks => Distinct(Named)
<1> SUFFICES ASSUME Agreement, PlainNicks PROVE Distinct(Named)
  OBVIOUS
<1>1. ASSUME NEW w \in Named PROVE w \in Connected /\ Name(w) \in Nicks /\ nick[w] = <<Name(w)>>
  <2>1. w \in Connected /\ nick[w] # Star
    BY DEF Named
  <2>2. PICK n \in Nicks : nick[w] = <<n>>
    BY <2>1 DEF PlainNicks
  <2> QED
    BY <2>1, <2>2 DEF Name
<1>2. ASSUME NEW v \in Named, NEW w \in Named, Name(v) = Name(w) PROVE v = w
  <2>1. v \in Connected /\ w \in Connected /\ nick[v] = nick[w]
    BY <1>1, <1>2
  <2>2. Holds({v}, nick[w])
    BY <2>1 DEF Holds
  <2>3. NickExclusive /\ NicksAreNames
    BY DEF Agreement, TypeInv, RegInv
  <2> QED
    BY <2>1, <2>2, <2>3, ByNickname
<1> QED
  BY <1>1, <1>2 DEF Distinct

\* The members of a channel are.
LEMMA MembersAreDistinct ==
  ASSUME RosterInv, NEW c \in Ptrs
  PROVE  /\ Members(chan[c]) \subseteq Named
         /\ Members(chan[c]) \subseteq Users
         /\ chan[c].operators \subseteq Members(chan[c])
         /\ Distinct(Members(chan[c]))
<1>1. Members(chan[c]) \subseteq Named
  BY DEF RosterInv, Agreement, Listed
<1>2. Distinct(Named)
  BY NamesAreDistinct DEF RosterInv
<1> QED
  BY <1>1, <1>2 DEF Distinct, Named, Connected, Members

LEMMA PlainStep ==
  ASSUME Agreement, PlainNicks, NEW u \in Users, Identify(u) PROVE PlainNicks'
<1> USE DEF PlainNicks, Connected
<1>1. TypeOK
  BY DEF Agreement, TypeInv, RegInv
<1>2. CASE Accept(u)
  <2>1. /\ \A v \in Users : status'[v] = IF v = u THEN "CONNECTED" ELSE status[v]
        /\ \A v \in Users : nick'[v] = IF v = u THEN Star ELSE nick[v]
    BY <1>1, <1>2 DEF Accept, TypeOK
  <2> QED
    BY <2>1
<1>3. ASSUME NEW n \in Nicks, Nick(u, n) PROVE PlainNicks'
  <2>1. /\ \A v \in Users \ {u} : status'[v] = status[v]
        /\ \A v \in Users : nick'[v] = IF v = u THEN <<n>> ELSE nick[v]
    BY <1>1, <1>3 DEF Nick, TypeOK
  <2> QED
    BY <2>1
<1>4. CASE Pass(u) \/ UserCmd(u)
  <2>1. \A v \in Users \ {u} : status'[v] = status[v]
    BY <1>1, <1>4 DEF Pass, UserCmd, TypeOK
  <2>2. u \in Connected /\ nick' = nick
    BY <1>4 DEF Pass, UserCmd, Sends
  <2> QED
    BY <2>1, <2>2
<1>5. CASE Oper(u) \/ ModeSelf(u)
  BY <1>5 DEF Oper, ModeSelf
<1>6. ~ OperShort(u) /\ \A n \in Nicks : ~ PrivmsgNobody(u, n)
  BY DEF OperShort, PrivmsgNobody, Sends, Agreement, Polite, Mistakes
<1> QED
  BY <1>2, <1>3, <1>4, <1>5, <1>6 DEF Identify, Identification

-----------------------------------------------------------------------------
(* One channel and its rosters *)

\* The rosters tell the steps that keep a nickname apart from the others.
LEMMA RightAfter ==
  ASSUME NEW c \in Ptrs, NEW members, NEW ops,
         Right(At(c)', members, ops), Members(chan'[c]) = members,
         chan'[c].operators = ops, \A w \in members : nick'[w] = nick[w]
  PROVE  Right(At(c), Members(chan[c]), chan[c].operators)'
<1>1. chan'[c].operators \subseteq members
  BY DEF Members
<1>2. {Name(w) : w \in members} = {Name(w)' : w \in members}
  BY DEF Name
<1>3. {Name(w) : w \in ops} = {Name(w)' : w \in ops}
  BY <1>1 DEF Name
<1>4. \A w \in ops : Name(w)' = Name(w)
  BY <1>1 DEF Name
<1> QED
  BY <1>1, <1>2, <1>3, <1>4 DEF Right

LEMMA RightJoin ==
  ASSUME NEW r, NEW s, NEW members \in SUBSET Users, NEW ops \in SUBSET members,
         NEW u \in Users \ members, Right(r, members, ops),
         s[u] = [names |-> {Name(w) : w \in members \cup {u}},
                 ops |-> {Name(w) : w \in ops}],
         \A v \in members : s[v].names = r[v].names \cup {Name(u)} /\ s[v].ops = r[v].ops,
         \A v \in Users \ (members \cup {u}) : s[v] = r[v]
  PROVE  Right(s, members \cup {u}, ops)
<1>1. {Name(w) : w \in members \cup {u}} = {Name(w) : w \in members} \cup {Name(u)}
  OBVIOUS
<1>2. \A x \in ops : Name(x) \in s[u].ops
  OBVIOUS
<1> QED
  BY <1>1, <1>2 DEF Right

\* What becomes of the operators when u leaves: nothing, or an heir is found.
Succession(new, ops, u) ==
  /\ ops \ {u} \subseteq new
  /\ new = ops \ {u} \/ \E h : new = {h}

LEMMA RightLeave ==
  ASSUME NEW r, NEW s, NEW members \in SUBSET Users, NEW ops \in SUBSET members,
         Distinct(members), NEW u \in members, Right(r, members, ops),
         NEW new, Succession(new, ops, u),
         s[u] = Unknown,
         \A v \in members \ {u} : /\ s[v].names = r[v].names \ {Name(u)}
                                  /\ s[v].ops = r[v].ops \ {Name(u)},
         \A v \in Users \ members : s[v] = r[v]
  PROVE  Right(s, members \ {u}, new)
<1>1. {Name(w) : w \in members} \ {Name(u)} = {Name(w) : w \in members \ {u}}
  BY DEF Distinct
<1>2. {Name(w) : w \in ops} \ {Name(u)} \subseteq {Name(w) : w \in new}
  BY DEF Distinct, Succession
<1>3. ASSUME NEW v \in members \ {u}, NEW x \in new, NEW y \in new,
             Name(x) \notin s[v].ops, Name(y) \notin s[v].ops
      PROVE  x = y
  <2>1. CASE new = ops \ {u}
    <3>1. Name(x) # Name(u) /\ Name(y) # Name(u)
      BY <2>1 DEF Distinct
    <3> QED
      BY <1>3, <2>1, <3>1 DEF Right
  <2>2. CASE \E h : new = {h}
    BY <2>2
  <2> QED
    BY <2>1, <2>2 DEF Succession
<1>4. \A v \in members \ {u} :
        /\ s[v].names = {Name(w) : w \in members \ {u}}
        /\ s[v].ops \subseteq {Name(w) : w \in new}
  BY <1>1, <1>2 DEF Right
<1>5. \A v \in Users \ (members \ {u}) : s[v] = Unknown
  BY DEF Right
<1> QED
  BY <1>3, <1>4, <1>5 DEF Right

\* An heir of one who was no member: a stale entry has made the channel look.
LEMMA RightStale ==
  ASSUME NEW r, NEW members \in SUBSET Users, NEW ops \in SUBSET members,
         Right(r, members, ops), NEW u, u \notin members,
         NEW new, Succession(new, ops, u)
  PROVE  Right(r, members, new)
<1>1. ops \subseteq new /\ (new = ops \/ \E h : new = {h})
  BY DEF Succession
<1>2. CASE new = ops
  BY <1>2
<1>3. CASE \E h : new = {h}
  <2>1. {Name(w) : w \in ops} \subseteq {Name(w) : w \in new}
    BY <1>1
  <2>2. \A x, y \in new : x = y
    BY <1>3
  <2> QED
    BY <2>1, <2>2 DEF Right
<1> QED
  BY <1>1, <1>2, <1>3

LEMMA RightPromoted ==
  ASSUME NEW r, NEW s, NEW members \in SUBSET Users, NEW ops \in SUBSET members,
         Right(r, members, ops), NEW w \in members,
         \A v \in members : s[v].names = r[v].names /\ s[v].ops = r[v].ops \cup {Name(w)},
         \A v \in Users \ members : s[v] = r[v]
  PROVE  Right(s, members, ops \cup {w})
<1>1. {Name(x) : x \in ops \cup {w}} = {Name(x) : x \in ops} \cup {Name(w)}
  OBVIOUS
<1> QED
  BY <1>1 DEF Right

LEMMA RightDemoted ==
  ASSUME NEW r, NEW s, NEW members \in SUBSET Users, NEW ops \in SUBSET members,
         Distinct(members), Right(r, members, ops), NEW w \in members,
         \A v \in members : s[v].names = r[v].names /\ s[v].ops = r[v].ops \ {Name(w)},
         \A v \in Users \ members : s[v] = r[v]
  PROVE  Right(s, members, ops \ {w})
<1>1. {Name(x) : x \in ops} \ {Name(w)} \subseteq {Name(x) : x \in ops \ {w}}
  OBVIOUS
<1>2. \A x \in ops \ {w} : Name(x) # Name(w)
  BY DEF Distinct
<1> QED
  BY <1>1, <1>2 DEF Right

-----------------------------------------------------------------------------
(* Who succeeds to the operators when a client leaves *)

\* Channel r is what channel ch becomes without u.
Succeeds(r, ch, u) ==
  /\ Members(r) = Members(ch) \ {u}
  /\ Succession(r.operators, ch.operators, u)

LEMMA InheritOperators ==
  ASSUME NEW ch \in Channel
  PROVE  \/ Inherit(ch).operators = ch.operators
         \/ ch.operators = {} /\ \E h : Inherit(ch).operators = {h}
<1> DEFINE h == Head(ch.normal)
           seq == Without(ch.normal, h)
           ops == ch.operators \cup {h}
           r == [ch EXCEPT !.normal = seq, !.operators = ops]
<1>1. CASE ch.operators = {} /\ ch.normal # <<>>
  <2>1. Inherit(ch) = r
    BY <1>1 DEF Inherit, Promote, IsOperator, Holds
  <2> HIDE DEF h, seq
  <2>2. r.operators = ops
    BY DEF Channel
  <2> HIDE DEF r
  <2> QED
    BY <1>1, <2>1, <2>2
<1>2. CASE ~ (ch.operators = {} /\ ch.normal # <<>>)
  BY <1>2 DEF Inherit
<1> QED
  BY <1>1, <1>2

LEMMA RemoveUserSucceeds ==
  ASSUME NickExclusive, NicksAreNames, NEW u \in Connected,
         NEW ch \in Channel, Sound(ch), Listed(ch, Named, Connected)
  PROVE  Succeeds(RemoveUser(ch, u), ch, u)
<1> DEFINE r == RemoveUser(ch, u)
           seq == Without(ch.normal, u)
           ops == ch.operators \ {u}
           inv == ch.invited \ {u}
           o == [ch EXCEPT !.operators = ops]
           n == [ch EXCEPT !.normal = seq]
           i == [ch EXCEPT !.invited = inv]
<1>1. r = IF IsInvited(ch, nick[u])
            THEN i ELSE Inherit(IF IsOperator(ch, nick[u]) THEN o ELSE n)
  BY DEF RemoveUser
<1>2. /\ IsOperator(ch, nick[u]) <=> u \in ch.operators
      /\ u \in Named => (IsInvited(ch, nick[u]) <=> u \in ch.invited)
  BY FindUser
<1>3. Members(r) = Members(ch) \ {u}
  BY RemoveUserMembers
<1>4. u \in Users /\ seq \in Seq(Users)
  BY ChannelFields, WithoutType DEF Connected
<1>5. o \in Channel /\ n \in Channel
  BY <1>4, ChannelFields, WithLists
<1>6. /\ i.operators = ch.operators
      /\ o.operators = ops
      /\ n.operators = ch.operators
  BY DEF Channel
<1> HIDE DEF r, o, n, i
<1>7. CASE IsInvited(ch, nick[u])
  <2>1. r = i /\ u \notin ch.operators
    BY <1>1, <1>2, <1>7 DEF Listed, Sound, Members
  <2> QED
    BY <1>3, <1>6, <2>1 DEF Succeeds, Succession, r
<1>8. CASE ~ IsInvited(ch, nick[u])
  <2>1. \E m \in Channel : r = Inherit(m) /\ m.operators = ops
    BY <1>1, <1>2, <1>5, <1>6, <1>8
  <2>2. r.operators = ops \/ (ops = {} /\ \E h : r.operators = {h})
    BY <2>1, InheritOperators
  <2> QED
    BY <1>3, <2>2 DEF Succeeds, Succession, r
<1> QED
  BY <1>7, <1>8

LEMMA SuccessionTwice ==
  ASSUME NEW ch \in Channel, NEW u, NEW r, Succeeds(r, ch, u), NEW q, Succeeds(q, r, u)
  PROVE  Succeeds(q, ch, u)
<1>1. r.operators \ {u} = r.operators
  BY DEF Succeeds, Members
<1> QED
  BY <1>1 DEF Succeeds, Succession

LEMMA SettledSucceeds ==
  ASSUME NEW ch \in Channel, NEW u, NEW r \in Channel, Succeeds(r, ch, u)
  PROVE  Succeeds(IF IsEmpty(r) THEN Freed ELSE r, ch, u)
<1>1. CASE IsEmpty(r)
  <2>1. Members(r) = {} /\ r.operators = {}
    BY <1>1, EmptyMembers DEF IsEmpty
  <2>2. Members(Freed) = {} /\ Freed.operators = {}
    BY DEF Freed, Members, ToSet
  <2> QED
    BY <1>1, <2>1, <2>2 DEF Succeeds
<1>2. CASE ~ IsEmpty(r)
  BY <1>2
<1> QED
  BY <1>1, <1>2

LEMMA DepartsSucceeds ==
  ASSUME Agreement, NEW u \in Users, NEW cs \in SUBSET Ptrs, Departs(u, cs), NEW c \in cs
  PROVE  Succeeds(chan'[c], chan[c], u)
<1>1. u \in Connected
  BY DEF Departs, Named
<1>2. /\ chan[c] \in Channel /\ Sound(chan[c]) /\ Listed(chan[c], Named, Connected)
      /\ NickExclusive /\ NicksAreNames
  BY ChannelAgreement
<1>3. Succeeds(RemoveUser(chan[c], u), chan[c], u) /\ RemoveUser(chan[c], u) \in Channel
  BY <1>1, <1>2, RemoveUserSucceeds, RemoveUserType
<1>4. chan'[c] = IF IsEmpty(RemoveUser(chan[c], u)) THEN Freed ELSE RemoveUser(chan[c], u)
  BY DepartedChannel
<1> QED
  BY <1>2, <1>3, <1>4, SettledSucceeds

LEMMA NothingSucceeds ==
  ASSUME NEW ch, NEW u, u \notin Members(ch) PROVE Succeeds(ch, ch, u)
  BY DEF Succeeds, Succession, Members

LEMMA QuitSucceeds ==
  ASSUME Agreement, NEW u \in Users, Quit(u), NEW c \in Ptrs
  PROVE  Succeeds(chan'[c], chan[c], u)
<1> DEFINE e == Emptied(u)[c]
           s == IF IsEmpty(e) THEN Freed ELSE e
           r == Released(u)[c]
<1>1. u \in Connected /\ ChannelsTypeOK
  BY DEF Quit, Disconnect, Sends, Agreement, TypeInv
<1>2. /\ chan[c] \in Channel /\ Sound(chan[c]) /\ Listed(chan[c], Named, Connected)
      /\ NickExclusive /\ NicksAreNames
  BY ChannelAgreement
<1>3. c \in joined[u] <=> u \in Members(chan[c])
  BY DEF Agreement, MembershipAgrees
<1>4. e = IF c \in joined[u] THEN RemoveUser(chan[c], u) ELSE chan[c]
  BY DEF Emptied
<1>5. /\ Succeeds(e, chan[c], u)
      /\ e \in Channel /\ Sound(e) /\ Listed(e, Named, Connected)
  <2>1. CASE c \in joined[u]
    BY <1>1, <1>2, <1>4, <2>1, RemoveUserType, RemoveUserMembers, RemoveUserSucceeds
  <2>2. CASE c \notin joined[u]
    BY <1>2, <1>3, <1>4, <2>2, NothingSucceeds
  <2> QED
    BY <2>1, <2>2
<1>6. s = Settle(Emptied(u))[c]
  BY DEF Settle
<1> HIDE DEF e
<1>7. /\ Succeeds(s, chan[c], u)
      /\ s \in Channel /\ Sound(s) /\ Listed(s, Named, Connected)
  BY <1>2, <1>5, SettledSucceeds, SettledChannel, FreedType
<1> HIDE DEF s
<1>8. /\ Succeeds(RemoveUser(s, u), chan[c], u)
      /\ RemoveUser(s, u) \in Channel /\ Sound(RemoveUser(s, u))
      /\ Listed(RemoveUser(s, u), Named, Connected)
  BY <1>1, <1>2, <1>7, RemoveUserType, RemoveUserMembers, RemoveUserSucceeds, SuccessionTwice
<1>9. Succeeds(RemoveUser(RemoveUser(s, u), u), chan[c], u)
  BY <1>1, <1>2, <1>8, RemoveUserSucceeds, SuccessionTwice
<1>10. Succeeds(r, chan[c], u) /\ r \in Channel
  <2>1. r = s \/ r = RemoveUser(s, u) \/ r = RemoveUser(RemoveUser(s, u), u)
    BY <1>1, <1>6, ReleasedCases
  <2>2. r \in Channel
    BY <1>1, EndTypes
  <2> QED
    BY <1>7, <1>8, <1>9, <2>1, <2>2
<1>11. chan'[c] = IF IsEmpty(r) THEN Freed ELSE r
  BY DEF Quit, Settle
<1> HIDE DEF r
<1> QED
  BY <1>2, <1>10, <1>11, SettledSucceeds

-----------------------------------------------------------------------------
(* The steps *)

LEMMA RosterFields ==
  ASSUME NEW r \in Roster
  PROVE  /\ r.names \subseteq Nicks /\ r.ops \subseteq Nicks
         /\ \A names, ops \in SUBSET Nicks : [names |-> names, ops |-> ops] \in Roster
  BY DEF Roster

\* A channel whose lists and rosters a step leaves as they were.
LEMMA SameRight ==
  ASSUME RosterInv, NEW c \in Ptrs, Members(chan'[c]) = Members(chan[c]),
         chan'[c].operators = chan[c].operators,
         \A v \in Users : roster'[v][c] = roster[v][c],
         \A w \in Members(chan[c]) : nick'[w] = nick[w]
  PROVE  Right(At(c), Members(chan[c]), chan[c].operators)'
<1>1. At(c)' = At(c)
  BY DEF At
<1>2. Right(At(c), Members(chan[c]), chan[c].operators)
  BY DEF RosterInv
<1> QED
  BY <1>1, <1>2, RightAfter

LEMMA TellLeaveType ==
  ASSUME RosterInv, NEW u \in Users, NEW heard, TellLeave(u, heard)
  PROVE  roster' \in [Users -> [Ptrs -> Roster]]
<1>1. ASSUME NEW v \in Users, NEW c \in Ptrs PROVE WithLeft(v, roster[v][c], u) \in Roster
  <2>1. roster[v][c] \in Roster
    BY DEF RosterInv
  <2>2. Unknown \in Roster
    BY DEF Unknown, Roster
  <2>3. [names |-> roster[v][c].names \ {Name(u)},
         ops |-> roster[v][c].ops \ {Name(u)}] \in Roster
    BY <2>1 DEF Roster
  <2> QED
    BY <2>2, <2>3 DEF WithLeft
<1> HIDE DEF Roster
<1> QED
  BY <1>1 DEF TellLeave, RosterInv

LEMMA LeaveRight ==
  ASSUME RosterInv, NEW u \in Users, NEW heard, TellLeave(u, heard), NEW c \in Ptrs,
         Succeeds(chan'[c], chan[c], u),
         heard[c] = IF u \in Members(chan[c]) THEN Members(chan[c]) ELSE {},
         \A w \in Users \ {u} : nick'[w] = nick[w]
  PROVE  Right(At(c), Members(chan[c]), chan[c].operators)'
<1> DEFINE members == Members(chan[c])
           ops == chan[c].operators
<1>1. /\ members \in SUBSET Users /\ ops \in SUBSET members /\ Distinct(members)
      /\ Right(At(c), members, ops)
  BY MembersAreDistinct DEF RosterInv
<1>2. Members(chan'[c]) = members \ {u} /\ Succession(chan'[c].operators, ops, u)
  BY DEF Succeeds
<1>3. \A v \in Users : At(c)'[v] = IF v \in heard[c] THEN WithLeft(v, At(c)[v], u) ELSE At(c)[v]
  BY DEF TellLeave, At
<1>4. Right(At(c)', members \ {u}, chan'[c].operators)
  <2>1. CASE u \in members
    <3>1. heard[c] = members /\ u \in Users
      BY <2>1
    <3> HIDE DEF members, ops
    <3>2. At(c)'[u] = Unknown
      BY <1>3, <2>1, <3>1 DEF WithLeft
    <3>3. ASSUME NEW v \in members \ {u}
          PROVE  /\ At(c)'[v].names = At(c)[v].names \ {Name(u)}
                 /\ At(c)'[v].ops = At(c)[v].ops \ {Name(u)}
      <4>1. At(c)'[v] = WithLeft(v, At(c)[v], u)
        BY <1>1, <1>3, <3>1
      <4> QED
        BY <4>1 DEF WithLeft
    <3>4. \A v \in Users \ members : At(c)'[v] = At(c)[v]
      BY <1>3, <3>1
    <3> QED
      BY <1>1, <1>2, <2>1, <3>1, <3>2, <3>3, <3>4, RightLeave
  <2>2. CASE u \notin members
    <3>1. At(c)' = At(c)
      BY <2>2 DEF TellLeave, At
    <3>2. members \ {u} = members
      BY <2>2
    <3> QED
      BY <1>1, <1>2, <2>2, <3>1, <3>2, RightStale
  <2> QED
    BY <2>1, <2>2
<1> QED
  BY <1>1, <1>2, <1>4, RightAfter

\* What the second half of the invariant is after a step.
RostersRight ==
  /\ roster \in [Users -> [Ptrs -> Roster]]
  /\ \A c \in Ptrs : Right(At(c), Members(chan[c]), chan[c].operators)

LEMMA DepartsRight ==
  ASSUME RosterInv, NEW u \in Users, NEW cs \in SUBSET Ptrs, Departs(u, cs), UNCHANGED nick,
         NEW heard, TellLeave(u, heard),
         \A c \in Ptrs : heard[c] = IF c \in cs THEN Members(chan[c]) ELSE {}
  PROVE  RostersRight'
<1>1. Agreement
  BY DEF RosterInv
<1>2. roster' \in [Users -> [Ptrs -> Roster]]
  BY TellLeaveType
<1>3. ASSUME NEW c \in Ptrs PROVE Right(At(c), Members(chan[c]), chan[c].operators)'
  <2>1. CASE c \in cs
    <3>1. u \in Members(chan[c]) /\ Succeeds(chan'[c], chan[c], u)
      BY <1>1, <2>1, DepartsSucceeds DEF Departs
    <3> QED
      BY <2>1, <3>1, LeaveRight
  <2>2. CASE c \notin cs
    <3>1. Members(chan'[c]) = Members(chan[c]) /\ chan'[c].operators = chan[c].operators
      <4>1. chan'[c] = IF IsEmpty(chan[c]) THEN Freed ELSE chan[c]
        BY <1>1, <2>2, DepartedChannel
      <4>2. Members(Freed) = {} /\ Freed.operators = {}
        BY DEF Freed, Members, ToSet
      <4>3. IsEmpty(chan[c]) => Members(chan[c]) = {} /\ chan[c].operators = {}
        BY <1>1, ChannelAgreement, EmptyMembers DEF IsEmpty
      <4> QED
        BY <4>1, <4>2, <4>3
    <3>2. \A v \in Users : roster'[v][c] = roster[v][c]
      BY <2>2 DEF TellLeave
    <3> QED
      BY <3>1, <3>2, SameRight
  <2> QED
    BY <2>1, <2>2
<1> QED
  BY <1>2, <1>3 DEF RostersRight

LEMMA PartRight ==
  ASSUME RosterInv, NEW u \in Users, NEW c \in Ptrs, PartStep(u, c) PROVE RostersRight'
<1> DEFINE heard == [d \in Ptrs |-> IF d = c THEN Everybody(chan[d]) ELSE {}]
<1>1. Departs(u, {c}) /\ TellLeave(u, heard) /\ UNCHANGED nick
  BY PartDeparts DEF PartStep, RosterInv, Part, regVars
<1>2. \A d \in Ptrs : heard[d] = IF d \in {c} THEN Members(chan[d]) ELSE {}
  BY DEF Everybody
<1> HIDE DEF heard
<1> QED
  BY <1>1, <1>2, DepartsRight

LEMMA KickedRight ==
  ASSUME RosterInv, NEW t \in Users, KickedStep(t) PROVE RostersRight'
<1> DEFINE heard == [d \in Ptrs |-> IF d = KickChan THEN Everybody(chan[d]) ELSE {}]
<1>1. /\ KickChan \in Ptrs /\ Departs(t, {KickChan})
      /\ TellLeave(t, heard) /\ UNCHANGED nick
  BY KickTargetDeparts DEF KickedStep, RosterInv, KickTarget, regVars
<1>2. \A d \in Ptrs : heard[d] = IF d \in {KickChan} THEN Members(chan[d]) ELSE {}
  BY DEF Everybody
<1> HIDE DEF heard
<1> QED
  BY <1>1, <1>2, DepartsRight

\* Those that leaveAllChannels reaches, and the user itself, are the members.
LEMMA OthersHear ==
  ASSUME RosterInv, NEW u \in Users, NEW c \in Ptrs
  PROVE  ToOthers(u)[c] = IF u \in Members(chan[c]) THEN Members(chan[c]) ELSE {}
<1>1. c \in joined[u] <=> u \in Members(chan[c])
  BY DEF RosterInv, Agreement, MembershipAgrees
<1>2. ASSUME u \in Members(chan[c]) PROVE Others(chan[c], u) = Members(chan[c]) \ {u}
  <2>1. Distinct(Members(chan[c]))
    BY MembersAreDistinct
  <2>2. \A v \in Members(chan[c]) : nick[v] = nick[u] => v = u
    BY <1>2, <2>1 DEF Distinct, Name
  <2> QED
    BY <2>2 DEF Others
<1> QED
  BY <1>1, <1>2 DEF ToOthers

LEMMA JoinZeroRight ==
  ASSUME RosterInv, NEW u \in Users, JoinZeroStep(u) PROVE RostersRight'
<1>1. /\ joined[u] \in SUBSET Ptrs /\ Departs(u, joined[u])
      /\ TellLeave(u, ToOthers(u)) /\ UNCHANGED nick
  BY JoinZeroDeparts DEF JoinZeroStep, RosterInv, JoinZero, regVars
<1>2. \A d \in Ptrs : ToOthers(u)[d] = IF d \in joined[u] THEN Members(chan[d]) ELSE {}
  BY OthersHear DEF RosterInv, Agreement, MembershipAgrees
<1> QED
  BY <1>1, <1>2, DepartsRight

LEMMA QuitRight ==
  ASSUME RosterInv, NEW u \in Users, QuitStep(u) PROVE RostersRight'
<1>1. Quit(u) /\ TellLeave(u, ToOthers(u)) /\ Agreement
  BY DEF QuitStep, RosterInv
<1>2. \A w \in Users \ {u} : nick'[w] = nick[w]
  BY <1>1 DEF Quit, Disconnect, Agreement, TypeInv, RegInv, TypeOK
<1>3. ASSUME NEW c \in Ptrs PROVE Right(At(c), Members(chan[c]), chan[c].operators)'
  BY <1>1, <1>2, OthersHear, QuitSucceeds, LeaveRight
<1> QED
  BY <1>1, <1>3, TellLeaveType DEF RostersRight

LEMMA NamesReplyType ==
  ASSUME NEW ch \in Channel, \A w \in Members(ch) : Name(w) \in Nicks
  PROVE  NamesReply(ch) \in Roster
  BY DEF NamesReply, Roster, Members

\* JOIN, of a channel that is there and of one that is not.
LEMMA TellJoinRight ==
  ASSUME RosterInv, NEW u \in Named, NEW c \in Ptrs, TellJoin(u, c), UNCHANGED nick,
         u \notin Members(chan[c]),
         chan' \in [Ptrs -> Channel],
         \A d \in Ptrs \ {c} : chan'[d] = chan[d],
         Members(chan'[c]) = Members(chan[c]) \cup {u},
         chan'[c].operators = chan[c].operators \/ Members(chan[c]) = {}
  PROVE  RostersRight'
<1> DEFINE members == Members(chan[c])
           ops == chan[c].operators
           reply == NamesReply(chan'[c])
<1>1. /\ members \in SUBSET Users /\ ops \in SUBSET members
      /\ Right(At(c), members, ops)
      /\ u \in Users
  BY MembersAreDistinct DEF RosterInv, Named, Connected
<1>2. \A w \in Members(chan'[c]) : Name(w) \in Nicks
  BY NamesAreDistinct, MembersAreDistinct DEF RosterInv, Distinct
<1>3. reply = [names |-> {Name(w) : w \in members \cup {u}},
               ops |-> {Name(w) : w \in chan'[c].operators}]
  <2>1. NamesReply(chan'[c]) = [names |-> {Name(w) : w \in Members(chan'[c])},
                                ops |-> {Name(w) : w \in chan'[c].operators}]
    BY DEF NamesReply
  <2> QED
    BY <2>1
<1>4. reply \in Roster
  BY <1>2, NamesReplyType
<1>5. \A v \in Users, d \in Ptrs : roster[v][d] \in Roster
  BY DEF RosterInv
<1>6. ASSUME NEW v \in Users, NEW d \in Ptrs
      PROVE  /\ v = u /\ d = c => roster'[v][d] = reply
             /\ v # u /\ v \in members /\ d = c => roster'[v][d] = WithJoined(roster[v][d], u)
             /\ d # c \/ (v # u /\ v \notin members) => roster'[v][d] = roster[v][d]
  <2>1. roster'[v] = [roster[v] EXCEPT ![c] =
                        CASE v = u -> reply
                          [] v # u /\ v \in Members(chan'[c]) -> WithJoined(roster[v][c], u)
                          [] OTHER -> roster[v][c]]
    BY DEF TellJoin, Everybody
  <2>2. roster[v] \in [Ptrs -> Roster]
    BY DEF RosterInv
  <2> HIDE DEF reply, members
  <2>3. \A x : [roster[v] EXCEPT ![c] = x][c] = x
                 /\ (d # c => [roster[v] EXCEPT ![c] = x][d] = roster[v][d])
    BY <2>2
  <2>4. CASE v = u
    BY <2>1, <2>3, <2>4
  <2>5. CASE v # u /\ v \in members
    BY <2>1, <2>3, <2>5 DEF members
  <2>6. CASE v # u /\ v \notin members
    BY <2>1, <2>3, <2>6 DEF members
  <2> QED
    BY <2>4, <2>5, <2>6
<1>7. \A r \in Roster : WithJoined(r, u) \in Roster
  <2>1. Name(u) \in Nicks
    BY <1>2
  <2> QED
    BY <2>1 DEF WithJoined, Roster
<1>8. roster' \in [Users -> [Ptrs -> Roster]]
  <2>1. \A v \in Users, d \in Ptrs : roster'[v][d] \in Roster
    BY <1>4, <1>5, <1>6, <1>7
  <2>2. /\ roster' = [v \in Users |-> roster'[v]]
        /\ \A v \in Users : roster'[v] = [d \in Ptrs |-> roster'[v][d]]
    BY DEF TellJoin, RosterInv
  <2> QED
    BY <2>1, <2>2
<1>9. Right(At(c)', members \cup {u}, chan'[c].operators)
  <2> HIDE DEF reply, members
  <2>1. \A v \in members : \A r \in Roster :
          WithJoined(r, u).names = r.names \cup {Name(u)} /\ WithJoined(r, u).ops = r.ops
    BY DEF WithJoined, Roster
  <2>2. At(c)'[u] = reply
    BY <1>1, <1>6 DEF At
  <2>3. \A v \in members : /\ At(c)'[v].names = At(c)[v].names \cup {Name(u)}
                           /\ At(c)'[v].ops = At(c)[v].ops
    <3> SUFFICES ASSUME NEW v \in members
                 PROVE  /\ At(c)'[v].names = At(c)[v].names \cup {Name(u)}
                        /\ At(c)'[v].ops = At(c)[v].ops
      OBVIOUS
    <3>1. v \in Users /\ v # u
      BY <1>1 DEF members
    <3>2. roster'[v][c] = WithJoined(roster[v][c], u)
      BY <1>6, <3>1
    <3> QED
      BY <1>5, <2>1, <3>1, <3>2 DEF At
  <2>4. \A v \in Users \ (members \cup {u}) : At(c)'[v] = At(c)[v]
    BY <1>6 DEF At
  <2>5. CASE chan'[c].operators = chan[c].operators
    <3>1. u \in Users \ members
      BY <1>1 DEF members
    <3> QED
      BY <1>1, <1>3, <2>2, <2>3, <2>4, <2>5, <3>1, RightJoin
  <2>6. CASE members = {}
    <3>1. \A v \in Users \ {u} : At(c)'[v] = Unknown
      BY <1>1, <2>4, <2>6 DEF Right
    <3>2. chan'[c].operators \subseteq {u}
      BY <2>6 DEF Members, members
    <3> QED
      BY <1>3, <2>2, <2>6, <3>1, <3>2 DEF Right
  <2> QED
    BY <2>5, <2>6 DEF members
<1>10. ASSUME NEW d \in Ptrs PROVE Right(At(d), Members(chan[d]), chan[d].operators)'
  <2>1. CASE d = c
    BY <1>9, <2>1, RightAfter
  <2>2. CASE d # c
    BY <1>6, <2>2, SameRight
  <2> QED
    BY <2>1, <2>2
<1> QED
  BY <1>8, <1>10 DEF RostersRight

LEMMA JoinStepRight ==
  ASSUME RosterInv, NEW u \in Users, NEW c \in Ptrs, JoinStep(u, c) PROVE RostersRight'
<1>1. PICK k \in Keys \cup {NoKey} : Join(u, c, k) \/ \E n \in Names : Create(u, c, n, k)
  BY DEF JoinStep
<1>2. TellJoin(u, c) /\ Agreement /\ LiveChannels /\ TypeInv
  BY DEF JoinStep, RosterInv, LiveInv
<1>3. chan[c] \in Channel /\ chan \in [Ptrs -> Channel]
  BY <1>2 DEF TypeInv, ChannelsTypeOK
<1>4. CASE Join(u, c, k)
  <2> DEFINE r == AddNormal(chan[c], u)
  <2>1. u \in Named /\ u \in Connected
    BY <1>2, <1>4, RegisteredNamed DEF Join, Asks
  <2>2. u \notin Members(chan[c])
    BY <1>2, <1>4, <2>1, ChannelAgreement, FindUser DEF Join, Admits
  <2>3. r.operators = chan[c].operators /\ r.normal = Append(chan[c].normal, u)
    BY <1>3 DEF AddNormal, Channel
  <2>4. chan' = [chan EXCEPT ![c] = r] /\ UNCHANGED nick
    BY <1>4 DEF Join, regVars
  <2>5. r \in Channel
    BY <1>3, AddNormalType
  <2> HIDE DEF r
  <2>6. Members(r) = Members(chan[c]) \cup {u}
    BY <1>3, <2>3, ChannelFields, AppendElements DEF Members
  <2>7. /\ chan' \in [Ptrs -> Channel] /\ chan'[c] = r
        /\ \A d \in Ptrs \ {c} : chan'[d] = chan[d]
    BY <1>3, <2>4, <2>5
  <2> QED
    BY <1>2, <2>1, <2>2, <2>3, <2>4, <2>6, <2>7, TellJoinRight
<1>5. ASSUME NEW n \in Names, Create(u, c, n, k) PROVE RostersRight'
  <2> DEFINE r == NewChannel(n, k, u)
  <2>1. u \in Named
    BY <1>2, <1>5, RegisteredNamed DEF Create, Asks
  <2>2. Members(chan[c]) = {}
    BY <1>2, <1>3, <1>5, EmptyMembers DEF Create, LiveChannels
  <2>3. r.operators = {u} /\ r.normal = <<>>
    BY DEF NewChannel, Freed
  <2>4. chan' = [chan EXCEPT ![c] = r] /\ UNCHANGED nick
    BY <1>5 DEF Create, regVars
  <2>5. r \in Channel
    BY NewChannelType
  <2> HIDE DEF r
  <2>6. Members(r) = {u}
    BY <2>3 DEF Members, ToSet
  <2>7. /\ chan' \in [Ptrs -> Channel] /\ chan'[c] = r
        /\ \A d \in Ptrs \ {c} : chan'[d] = chan[d]
    BY <1>3, <2>4, <2>5
  <2> QED
    BY <1>2, <2>1, <2>2, <2>4, <2>6, <2>7, TellJoinRight
<1> QED
  BY <1>1, <1>4, <1>5

\* The members and operators that MODE o leaves.
LEMMA NewLevels ==
  ASSUME Agreement, NEW u \in Users, NEW c \in Ptrs, Mode(u, c)
  PROVE  /\ Members(chan'[c]) = Members(chan[c])
         /\ \A d \in Ptrs \ {c} : chan'[d] = chan[d]
         /\ UNCHANGED nick
<1>1. PICK r \in Channel, ch \in Levels(chan[c]) :
        /\ chan' = [chan EXCEPT ![c] = r]
        /\ r.operators = ch.operators
        /\ r.normal = ch.normal
        /\ r.invited = ch.invited
        /\ r.name = ch.name
  BY ModeChannel DEF Agreement
<1>2. chan[c] \in Channel /\ Sound(chan[c]) /\ chan \in [Ptrs -> Channel]
  BY ChannelAgreement DEF Agreement, TypeInv, ChannelsTypeOK
<1>3. Members(ch) = Members(chan[c])
  BY <1>2, PromoteMembers, DemoteMembers DEF Levels, Nameable
<1>4. Members(r) = Members(chan[c])
  BY <1>1, <1>3 DEF Members
<1> QED
  BY <1>1, <1>2, <1>4 DEF Mode, regVars

LEMMA NamedLevels ==
  ASSUME Agreement, NEW c \in Ptrs, NEW w \in Nameable(chan[c])
  PROVE  /\ w \in Members(chan[c])
         /\ Promote(chan[c], w).operators = chan[c].operators \cup {w}
         /\ Demote(chan[c], w).operators = chan[c].operators \ {w}
<1> DEFINE ch == chan[c]
           seq == Without(ch.normal, w)
           more == ch.operators \cup {w}
           longer == Append(ch.normal, w)
           less == ch.operators \ {w}
<1>1. w \in Members(ch) /\ ch \in Channel /\ Sound(ch)
  BY ChannelAgreement DEF Nameable
<1>2. /\ IsOperator(ch, nick[w]) <=> w \in ch.operators
      /\ IsNormal(ch, nick[w]) <=> w \in ToSet(ch.normal)
  <2>1. w \in Connected
    BY <1>1, ChannelAgreement DEF Listed, Named
  <2> QED
    BY <2>1, ChannelAgreement, FindUser
<1>3. [ch EXCEPT !.normal = seq, !.operators = more].operators = more
  BY <1>1 DEF Channel
<1>4. [ch EXCEPT !.operators = less, !.normal = longer].operators = less
  BY <1>1 DEF Channel
<1>5. Promote(ch, w) = IF w \in ch.operators
                         THEN ch ELSE [ch EXCEPT !.normal = seq, !.operators = more]
  BY <1>2 DEF Promote
<1>6. Demote(ch, w) = IF w \in ToSet(ch.normal)
                        THEN ch ELSE [ch EXCEPT !.operators = less, !.normal = longer]
  BY <1>2 DEF Demote
<1>7. w \in ToSet(ch.normal) => less = ch.operators
  BY <1>1 DEF Sound
<1>8. w \in ch.operators => more = ch.operators
  OBVIOUS
<1> HIDE DEF seq, more, longer, less
<1> QED
  BY <1>1, <1>3, <1>4, <1>5, <1>6, <1>7, <1>8 DEF more, less

LEMMA ModeStepRight ==
  ASSUME RosterInv, NEW u \in Users, NEW c \in Ptrs, ModeStep(u, c) PROVE RostersRight'
<1> DEFINE members == Members(chan[c])
           ops == chan[c].operators
<1>1. /\ members \in SUBSET Users /\ ops \in SUBSET members
      /\ Distinct(members)
      /\ Right(At(c), members, ops)
  BY MembersAreDistinct DEF RosterInv
<1>2. Mode(u, c) /\ Agreement
  BY DEF ModeStep, RosterInv
<1>3. /\ Members(chan'[c]) = members
      /\ \A d \in Ptrs \ {c} : chan'[d] = chan[d]
      /\ UNCHANGED nick
  BY <1>2, NewLevels
<1>4. \A v \in Users : roster[v] \in [Ptrs -> Roster] /\ roster[v][c] \in Roster
  BY DEF RosterInv
<1>5. ASSUME NEW r \in Roster, NEW w \in members
      PROVE  /\ WithLevel(r, "none", u) = r
             /\ WithLevel(r, "+o", w) \in Roster
             /\ WithLevel(r, "+o", w).names = r.names
             /\ WithLevel(r, "+o", w).ops = r.ops \cup {Name(w)}
             /\ WithLevel(r, "-o", w) \in Roster
             /\ WithLevel(r, "-o", w).names = r.names
             /\ WithLevel(r, "-o", w).ops = r.ops \ {Name(w)}
  <2>1. /\ WithLevel(r, "none", u) = r
        /\ WithLevel(r, "+o", w) = [r EXCEPT !.ops = @ \cup {Name(w)}]
        /\ WithLevel(r, "-o", w) = [r EXCEPT !.ops = @ \ {Name(w)}]
    BY DEF WithLevel
  <2> QED
    BY <1>1, <2>1 DEF Distinct, Roster
<1> HIDE DEF members, ops
<1>6. ASSUME NEW new \in [Users -> Roster],
             roster' = [v \in Users |-> [roster[v] EXCEPT ![c] = new[v]]],
             Right(new, members, chan'[c].operators)
      PROVE  RostersRight'
  <2>1. roster' \in [Users -> [Ptrs -> Roster]]
    BY <1>4, <1>6
  <2>2. At(c)' = new
    BY <1>4, <1>6 DEF At
  <2>3. Right(At(c), Members(chan[c]), chan[c].operators)'
    BY <1>3, <1>6, <2>2, RightAfter
  <2>4. ASSUME NEW d \in Ptrs \ {c} PROVE Right(At(d), Members(chan[d]), chan[d].operators)'
    <3>1. \A v \in Users : roster'[v][d] = roster[v][d]
      BY <1>4, <1>6
    <3> QED
      BY <1>3, <3>1, SameRight
  <2> QED
    BY <2>1, <2>3, <2>4 DEF RostersRight
<1>7. CASE chan'[c].operators = ops /\ TellLevel(c, "none", u)
  <2>1. roster' = [v \in Users |-> [roster[v] EXCEPT ![c] = At(c)[v]]]
    BY <1>4, <1>5, <1>7 DEF TellLevel, At, WithLevel
  <2>2. At(c) \in [Users -> Roster]
    BY <1>4 DEF At
  <2> QED
    BY <1>1, <1>6, <1>7, <2>1, <2>2
<1>8. ASSUME NEW w \in Nameable(chan[c]),
             chan'[c].operators = Promote(chan[c], w).operators, TellLevel(c, "+o", w)
      PROVE  RostersRight'
  <2> DEFINE new == [v \in Users |-> IF v \in members THEN WithLevel(roster[v][c], "+o", w)
                                                      ELSE roster[v][c]]
  <2>1. w \in members /\ chan'[c].operators = ops \cup {w}
    BY <1>2, <1>8, NamedLevels DEF members, ops
  <2>2. new \in [Users -> Roster]
    BY <1>4, <1>5, <2>1
  <2>3. roster' = [v \in Users |-> [roster[v] EXCEPT ![c] = new[v]]]
    BY <1>3, <1>4, <1>8 DEF TellLevel, Everybody
  <2>4. /\ \A v \in members :
             new[v].names = At(c)[v].names /\ new[v].ops = At(c)[v].ops \cup {Name(w)}
        /\ \A v \in Users \ members : new[v] = At(c)[v]
    BY <1>1, <1>4, <1>5, <2>1 DEF At
  <2> HIDE DEF new
  <2>5. Right(new, members, ops \cup {w})
    BY <1>1, <2>1, <2>4, RightPromoted
  <2> QED
    BY <1>6, <2>1, <2>2, <2>3, <2>5
<1>9. ASSUME NEW w \in Nameable(chan[c]),
             chan'[c].operators = Demote(chan[c], w).operators, TellLevel(c, "-o", w)
      PROVE  RostersRight'
  <2> DEFINE new == [v \in Users |-> IF v \in members THEN WithLevel(roster[v][c], "-o", w)
                                                      ELSE roster[v][c]]
  <2>1. w \in members /\ chan'[c].operators = ops \ {w}
    BY <1>2, <1>9, NamedLevels DEF members, ops
  <2>2. new \in [Users -> Roster]
    BY <1>4, <1>5, <2>1
  <2>3. roster' = [v \in Users |-> [roster[v] EXCEPT ![c] = new[v]]]
    BY <1>3, <1>4, <1>9 DEF TellLevel, Everybody
  <2>4. /\ \A v \in members :
             new[v].names = At(c)[v].names /\ new[v].ops = At(c)[v].ops \ {Name(w)}
        /\ \A v \in Users \ members : new[v] = At(c)[v]
    BY <1>1, <1>4, <1>5, <2>1 DEF At
  <2> HIDE DEF new
  <2>5. Right(new, members, ops \ {w})
    BY <1>1, <2>1, <2>4, RightDemoted
  <2> QED
    BY <1>6, <2>1, <2>2, <2>3, <2>5
<1> QED
  BY <1>7, <1>8, <1>9 DEF ModeStep, ops

LEMMA SilentRight == ASSUME RosterInv, SilentStep PROVE RostersRight'
<1>1. UNCHANGED roster /\ Agreement
  BY DEF SilentStep, RosterInv
<1>2. /\ roster' \in [Users -> [Ptrs -> Roster]]
      /\ \A v \in Users, c \in Ptrs : roster'[v][c] = roster[v][c]
  BY <1>1 DEF RosterInv
<1>3. ASSUME \A c \in Ptrs : /\ Members(chan'[c]) = Members(chan[c])
                             /\ chan'[c].operators = chan[c].operators
                             /\ \A w \in Members(chan[c]) : nick'[w] = nick[w]
      PROVE  RostersRight'
  BY <1>2, <1>3, SameRight DEF RostersRight
<1>4. CASE UNCHANGED <<chan, nick>>
  BY <1>3, <1>4
<1>5. ASSUME NEW u \in Users, IdentifyStep(u) PROVE RostersRight'
  <2>1. chan' = chan
    BY <1>5 DEF IdentifyStep, Identify, chanVars
  <2>2. \A v \in Users \ {u} : nick'[v] = nick[v]
    BY <1>1, <1>5 DEF IdentifyStep, Identify, Identification, Accept, Pass, Nick, UserCmd,
         Oper, ModeSelf, PrivmsgNobody, OperShort, Mangle, Agreement, TypeInv, RegInv, TypeOK
  <2>3. ASSUME NEW c \in Ptrs, u \in Members(chan[c]) PROVE nick'[u] = nick[u]
    BY <1>1, <1>5, <2>3 DEF IdentifyStep, Agreement, MembershipAgrees
  <2>4. \A c \in Ptrs : Members(chan[c]) \subseteq Users
    BY <1>1, ChannelAgreement, ChannelFields
  <2> QED
    BY <1>3, <2>1, <2>2, <2>3, <2>4
<1>6. ASSUME NEW u \in Users, NEW t \in Users, NEW c \in Ptrs, Invite(u, t, c)
      PROVE  RostersRight'
  <2> DEFINE guests == chan[c].invited \cup {t}
             r == [chan[c] EXCEPT !.invited = guests]
  <2>1. chan[c] \in Channel /\ chan \in [Ptrs -> Channel]
    BY <1>1 DEF Agreement, TypeInv, ChannelsTypeOK
  <2>2. r.operators = chan[c].operators /\ r.normal = chan[c].normal
    BY <2>1 DEF Channel
  <2>3. chan' = [chan EXCEPT ![c] = r] /\ UNCHANGED nick
    BY <1>6 DEF Invite, regVars
  <2> HIDE DEF r
  <2>4. \A d \in Ptrs : /\ Members(chan'[d]) = Members(chan[d])
                       /\ chan'[d].operators = chan[d].operators
    BY <2>1, <2>2, <2>3 DEF Members
  <2> QED
    BY <1>3, <2>3, <2>4
<1>7. ASSUME NEW u \in Users, NEW c \in Ptrs, NEW t \in Topics, Topic(u, c, t)
      PROVE  RostersRight'
  <2> DEFINE r == [chan[c] EXCEPT !.topic = t]
  <2>1. chan[c] \in Channel /\ chan \in [Ptrs -> Channel]
    BY <1>1 DEF Agreement, TypeInv, ChannelsTypeOK
  <2>2. r.operators = chan[c].operators /\ r.normal = chan[c].normal
    BY <2>1 DEF Channel
  <2>3. chan' = [chan EXCEPT ![c] = r] /\ UNCHANGED nick
    BY <1>7 DEF Topic, regVars
  <2> HIDE DEF r
  <2>4. \A d \in Ptrs : /\ Members(chan'[d]) = Members(chan[d])
                       /\ chan'[d].operators = chan[d].operators
    BY <2>1, <2>2, <2>3 DEF Members
  <2> QED
    BY <1>3, <2>3, <2>4
<1>8. ASSUME NEW u \in Users, NEW c \in Ptrs, NEW targets \in TargetLists, Kick(u, c, targets)
      PROVE  UNCHANGED <<chan, nick>>
  BY <1>8 DEF Kick, regVars
<1>9. ASSUME KickMiss \/ KickFreed \/ Halted PROVE UNCHANGED <<chan, nick>>
  BY <1>9 DEF KickMiss, KickFreed, Halted, vars, regVars, chanVars
<1>10. ASSUME NEW u \in Users, QuitFaults(u) PROVE UNCHANGED <<chan, nick>>
  BY <1>10 DEF QuitFaults, regVars
<1> QED
  BY <1>4, <1>5, <1>6, <1>7, <1>8, <1>9, <1>10 DEF SilentStep

\* What is sent adds nothing to the steps of Channels.
LEMMA RostersNextIsNext == RostersNext => Next
<1> SUFFICES ASSUME RostersNext PROVE Next
  OBVIOUS
<1> USE DEF Next, ClientStep, KickStep
<1>1. ASSUME NEW u \in Users, NEW c \in Ptrs, JoinStep(u, c) PROVE Next
  BY <1>1 DEF JoinStep
<1>2. ASSUME NEW u \in Users, NEW c \in Ptrs, PartStep(u, c) \/ ModeStep(u, c) PROVE Next
  BY <1>2 DEF PartStep, ModeStep
<1>3. ASSUME NEW u \in Users, JoinZeroStep(u) \/ QuitStep(u) \/ KickedStep(u) PROVE Next
  BY <1>3 DEF JoinZeroStep, QuitStep, KickedStep
<1>4. ASSUME SilentStep PROVE Next
  BY <1>4 DEF SilentStep, IdentifyStep
<1> QED
  BY <1>1, <1>2, <1>3, <1>4 DEF RostersNext

LEMMA PlainNicksStep ==
  ASSUME Agreement, PlainNicks, Next PROVE PlainNicks'
<1>1. CASE \E u \in Users : Identify(u)
  BY <1>1, PlainStep
<1>2. ASSUME NEW u \in Users, Quit(u) PROVE PlainNicks'
  <2>1. \A v \in Users \ {u} : nick'[v] = nick[v] /\ status'[v] = status[v]
    BY <1>2 DEF Quit, Disconnect, Agreement, TypeInv, RegInv, TypeOK
  <2>2. status'[u] = "GONE"
    BY <1>2 DEF Quit, Disconnect, Agreement, TypeInv, RegInv, TypeOK
  <2> QED
    BY <2>1, <2>2 DEF PlainNicks, Connected
<1>3. ASSUME UNCHANGED regVars PROVE PlainNicks'
  BY <1>3 DEF PlainNicks, Connected, regVars
<1>4. \/ \E u \in Users : Identify(u) \/ Quit(u)
      \/ UNCHANGED regVars
  BY DEF Next, ClientStep, KickStep, Halted, vars, Join, Create, Part, JoinZero, Invite, Mode,
         Topic, Kick, QuitFaults, KickTarget, KickMiss, KickFreed
<1> QED
  BY <1>1, <1>2, <1>3, <1>4

LEMMA RosterStep == RosterInv /\ [RostersNext]_rosterVars => RosterInv'
<1> SUFFICES ASSUME RosterInv, [RostersNext]_rosterVars PROVE RosterInv'
  OBVIOUS
<1>1. CASE RostersNext
  <2>1. Next /\ Agreement /\ LiveInv /\ PlainNicks
    BY <1>1, RostersNextIsNext DEF RosterInv
  <2>2. Agreement' /\ LiveInv' /\ PlainNicks'
    BY <2>1, AgreementStep, LiveStep, PlainNicksStep
  <2>3. RostersRight'
    BY <1>1, JoinStepRight, PartRight, ModeStepRight, JoinZeroRight, QuitRight, KickedRight,
       SilentRight DEF RostersNext
  <2> QED
    BY <2>2, <2>3 DEF RosterInv, RostersRight
<1>2. CASE UNCHANGED rosterVars
  <2>1. Agreement' /\ LiveInv'
    BY <1>2, AgreementStep, LiveStep DEF RosterInv, rosterVars
  <2>2. PlainNicks'
    BY <1>2 DEF RosterInv, PlainNicks, Connected, rosterVars, vars, regVars
  <2>3. roster' = roster /\ chan' = chan /\ nick' = nick
    BY <1>2 DEF rosterVars, vars, regVars, chanVars
  <2>4. RostersRight'
    <3>1. \A c \in Ptrs : Right(At(c), Members(chan[c]), chan[c].operators)'
      BY <2>3, SameRight
    <3> QED
      BY <2>3, <3>1 DEF RostersRight, RosterInv
  <2> QED
    BY <2>1, <2>2, <2>4 DEF RosterInv, RostersRight
<1> QED
  BY <1>1, <1>2

LEMMA RostersInitRight == Polite /\ RostersInit => RosterInv
<1> SUFFICES ASSUME Polite, RostersInit PROVE RosterInv
  OBVIOUS
<1>1. Agreement /\ LiveInv
  BY AgreementInit, LiveInit DEF RostersInit
<1>2. PlainNicks
  BY DEF RostersInit, Init, RegInit, PlainNicks, Connected
<1>3. Unknown \in Roster
  BY DEF Unknown, Roster
<1>4. roster \in [Users -> [Ptrs -> Roster]]
  BY <1>3 DEF RostersInit
<1>5. ASSUME NEW c \in Ptrs PROVE Right(At(c), Members(chan[c]), chan[c].operators)
  <2>1. Members(Freed) = {}
    BY DEF Freed, Members, ToSet
  <2>2. Members(chan[c]) = {}
    BY <2>1 DEF RostersInit, Init
  <2> QED
    BY <2>2 DEF RostersInit, Right, At
<1> QED
  BY <1>1, <1>2, <1>4, <1>5 DEF RosterInv

LEMMA RosterInvariant == Polite /\ RostersSpec => []RosterInv
<1>1. Polite /\ RostersInit => RosterInv
  BY RostersInitRight
<1> QED
  BY <1>1, RosterStep, PTL DEF RostersSpec

\* The state is well typed; nicknames that clients are told of are nicknames.
THEOREM RostersTypeCorrect == Polite /\ RostersSpec => []RostersTypeOK
<1>1. RosterInv => RostersTypeOK
  BY DEF RosterInv, Agreement, TypeInv, RostersTypeOK
<1> QED
  BY <1>1, RosterInvariant, PTL

\* JOIN, PART, KICK, JOIN 0 and QUIT tell every member of a channel, however
\* many there are, of everybody who comes and goes.
THEOREM RostersStayTrue == Polite /\ RostersSpec => []RostersAreTrue
<1>1. ASSUME RosterInv, NEW c \in Ptrs, NEW v \in Members(chan[c])
      PROVE  roster[v][c].names = {Name(w) : w \in Members(chan[c])}
  BY <1>1, MembersAreDistinct DEF RosterInv, Right, At
<1>2. RosterInv => RostersAreTrue
  BY <1>1 DEF RostersAreTrue
<1> QED
  BY <1>2, RosterInvariant, PTL

\* Messages about levels are true, and hide no more than one operator: the heir.
THEOREM OperatorsStayKnown == Polite /\ RostersSpec => []OperatorsAreKnown
<1>1. ASSUME RosterInv, NEW c \in Ptrs, NEW v \in Members(chan[c])
      PROVE  /\ roster[v][c].ops \subseteq {Name(w) : w \in chan[c].operators}
             /\ Cardinality({w \in chan[c].operators : Name(w) \notin roster[v][c].ops}) <= 1
  <2> DEFINE unknown == {w \in chan[c].operators : Name(w) \notin roster[v][c].ops}
  <2>1. /\ roster[v][c].ops \subseteq {Name(w) : w \in chan[c].operators}
        /\ \A x, y \in unknown : x = y
    BY <1>1, MembersAreDistinct DEF RosterInv, Right, At
  <2> HIDE DEF unknown
  <2>2. Cardinality(unknown) <= 1
    <3>1. CASE unknown = {}
      <4>1. Cardinality(unknown) = 0
        BY <3>1, FS_EmptySet
      <4> QED
        BY <4>1
    <3>2. ASSUME NEW x \in unknown PROVE Cardinality(unknown) <= 1
      <4>1. unknown = {x}
        BY <2>1
      <4>2. Cardinality({x}) = 1
        BY FS_Singleton
      <4> QED
        BY <4>1, <4>2
    <3> QED
      BY <3>1, <3>2
  <2> QED
    BY <2>1, <2>2 DEF unknown
<1>2. RosterInv => OperatorsAreKnown
  BY <1>1 DEF OperatorsAreKnown
<1> QED
  BY <1>2, RosterInvariant, PTL

\* Whoever has left a channel, or has been kicked, knows that it has.
THEOREM LeaversTold == Polite /\ RostersSpec => []LeaversAreTold
<1>1. ASSUME RosterInv, NEW c \in Ptrs, NEW v \in Users \ Members(chan[c])
      PROVE  roster[v][c] = Unknown
  BY <1>1 DEF RosterInv, Right, At
<1>2. RosterInv => LeaversAreTold
  BY <1>1 DEF LeaversAreTold
<1> QED
  BY <1>2, RosterInvariant, PTL

=============================================================================
