--------------------------- MODULE ModeLoopProofs ---------------------------
(***************************************************************************)
(* Proofs about ModeLoop, for commands of any length: its type, that the   *)
(* loop as a whole is the step Mode of Channels, and that what it          *)
(* announces is what it has done.                                          *)
(***************************************************************************)
EXTENDS ModeLoop, Induction

-----------------------------------------------------------------------------
(* The lists of the channel *)

\* What only MODE o may change, of what MODE changes.
Alike(ch, d) ==
  /\ ch.name = d.name /\ ch.topic = d.topic /\ ch.invited = d.invited
  /\ ch.operators = d.operators /\ ch.normal = d.normal

LEMMA WithoutType ==
  ASSUME NEW s \in Seq(Users), NEW u PROVE Chan!Without(s, u) \in Seq(Users)
<1>1. CASE \E n \in DOMAIN s : s[n] = u
  <2> DEFINE at == CHOOSE n \in DOMAIN s : s[n] = u
             t == [n \in 1 .. Len(s) - 1 |-> IF n < at THEN s[n] ELSE s[n + 1]]
  <2>1. at \in 1 .. Len(s) /\ Len(s) \in Nat
    BY <1>1
  <2>2. Chan!Without(s, u) = t
    BY <1>1 DEF Chan!Without
  <2> HIDE DEF at
  <2>3. \A n \in 1 .. Len(s) - 1 : s[n] \in Users /\ s[n + 1] \in Users
    OBVIOUS
  <2>4. t \in [1 .. Len(s) - 1 -> Users] /\ Len(s) - 1 \in Nat
    BY <2>1, <2>3
  <2> QED
    BY <2>2, <2>4
<1>2. CASE ~ \E n \in DOMAIN s : s[n] = u
  BY <1>2 DEF Chan!Without
<1> QED
  BY <1>1, <1>2

LEMMA MemberIsUser ==
  ASSUME NEW ch \in Chan!Channel, NEW u \in Chan!Members(ch) PROVE u \in Users
<1>1. ch.operators \in SUBSET Users /\ ch.normal \in Seq(Users)
  BY DEF Chan!Channel
<1>2. \A n \in DOMAIN ch.normal : ch.normal[n] \in Users
  BY <1>1
<1> QED
  BY <1>1, <1>2 DEF Chan!Members, Chan!ToSet

LEMMA PromoteType ==
  ASSUME NEW ch \in Chan!Channel, NEW u \in Users PROVE Chan!Promote(ch, u) \in Chan!Channel
<1>1. Chan!Without(ch.normal, u) \in Seq(Users)
  BY WithoutType DEF Chan!Channel
<1> QED
  BY <1>1 DEF Chan!Channel, Chan!Promote

LEMMA DemoteType ==
  ASSUME NEW ch \in Chan!Channel, NEW u \in Users PROVE Chan!Demote(ch, u) \in Chan!Channel
<1>1. PICK s \in Seq(Users) : s = ch.normal
  BY DEF Chan!Channel
<1>2. Append(s, u) \in Seq(Users)
  OBVIOUS
<1> QED
  BY <1>1, <1>2 DEF Chan!Channel, Chan!Demote

\* Levels go by the lists alone.
LEMMA AlikeLevels ==
  ASSUME NEW ch \in Chan!Channel, NEW d \in Chan!Channel, Alike(ch, d), NEW u
  PROVE  /\ Alike(Chan!Promote(ch, u), Chan!Promote(d, u))
         /\ Alike(Chan!Demote(ch, u), Chan!Demote(d, u))
<1>1. Alike(Chan!Promote(ch, u), Chan!Promote(d, u))
  BY DEF Alike, Chan!Promote, Chan!IsOperator, Chan!Channel
<1>2. Alike(Chan!Demote(ch, u), Chan!Demote(d, u))
  BY DEF Alike, Chan!Demote, Chan!IsNormal, Chan!Channel
<1> QED
  BY <1>1, <1>2

-----------------------------------------------------------------------------
(* One turn of the loop *)

\* The key is a parameter of the command, none, or the one there was.
KeyFrom(ch, d) == d.key \in Words \cup {NoKey, ch.key}

\* While the loop runs, levels are those before the command or what one MODE o
\* makes of them, and the first of these two for as long as no o has been done.
ModeInv ==
  /\ ModeTypeOK
  /\ pc = "idle" => Chan!IsLive(channel)
  /\ pc = "loop" =>
       /\ Chan!IsLive(before) /\ Chan!Governs(before, sender)
       /\ \E ch \in Chan!Levels(before) : Alike(ch, channel)
       /\ "o" \notin happened => Alike(before, channel)
       /\ KeyFrom(before, channel)

LEMMA TurnType ==
  ASSUME ModeTypeOK, NEW l, Turn(l)
  PROVE  /\ l \in Letters /\ Sign \in Signs /\ Letter = l
         /\ mods' \in Seq(Signs \X Letters)
         /\ pc = "loop" /\ UNCHANGED <<sender, before, pc>>
<1>1. PICK s \in Seq(Signs \X Letters) : s = mods /\ s # <<>>
  BY DEF ModeTypeOK, Turn
<1>2. s[1] \in Signs \X Letters /\ Tail(s) \in Seq(Signs \X Letters)
  BY <1>1
<1> QED
  BY <1>1, <1>2 DEF Turn, Letter, Sign

LEMMA ParamType ==
  ASSUME ModeTypeOK, params # <<>>
  PROVE  /\ Head(params) \in Words /\ Tail(params) \in Seq(Words)
         /\ <<Head(params)>> \in Seq(Words)
<1>1. PICK s \in Seq(Words) : s = params
  BY DEF ModeTypeOK
<1>2. Head(s) \in Words /\ Tail(s) \in Seq(Words)
  BY <1>1
<1> QED
  BY <1>1, <1>2

LEMMA TellType ==
  ASSUME ModeTypeOK, Sign \in Signs, Letter \in Letters, NEW words \in Seq(Words), Tell(words)
  PROVE  /\ modsToSend' \in Seq(Signs \cup Letters)
         /\ paramsToSend' \in Seq(Words) /\ last' \in Signs
<1>1. PICK s \in Seq(Signs \cup Letters), w \in Seq(Words) : s = modsToSend /\ w = paramsToSend
  BY DEF ModeTypeOK
<1>2. PICK x \in Signs \cup Letters, y \in Signs \cup Letters : x = Sign /\ y = Letter
  OBVIOUS
<1>3. s \o <<x, y>> \in Seq(Signs \cup Letters) /\ s \o <<y>> \in Seq(Signs \cup Letters)
  OBVIOUS
<1>4. w \o words \in Seq(Words)
  OBVIOUS
<1> QED
  BY <1>1, <1>2, <1>3, <1>4 DEF Tell

LEMMA HappenedType ==
  ASSUME ModeTypeOK, NEW l \in Letters, Once(l) \/ UNCHANGED happened
  PROVE  happened' \subseteq Letters
  BY DEF ModeTypeOK, Once

LEMMA SameBefore ==
  ASSUME UNCHANGED before PROVE Chan!Levels(before)' = Chan!Levels(before)
  OBVIOUS

\* All turns but those of o leave the lists alone.
LEMMA SameLists ==
  ASSUME ModeInv, NEW l, Turn(l), ModeTypeOK', Alike(channel, channel'),
         KeyFrom(channel, channel'), happened \subseteq happened'
  PROVE  ModeInv'
<1>1. pc = "loop" /\ pc' = "loop" /\ before' = before /\ sender' = sender
  BY DEF Turn
<1>2. Chan!Levels(before)' = Chan!Levels(before)
  BY <1>1, SameBefore
<1>3. Chan!Governs(before, sender)' /\ Chan!IsLive(before)'
  BY <1>1 DEF ModeInv, Chan!Governs, Chan!IsOperator, Chan!Holds, Chan!IsLive
<1>4. \E ch \in Chan!Levels(before) : Alike(ch, channel')
  BY <1>1 DEF ModeInv, Alike
<1>5. "o" \notin happened' => Alike(before, channel')
  BY <1>1 DEF ModeInv, Alike
<1>6. KeyFrom(before, channel')
  BY <1>1 DEF ModeInv, KeyFrom
<1>7. KeyFrom(before, channel)'
  BY <1>1, <1>6 DEF KeyFrom
<1> QED
  BY <1>1, <1>2, <1>3, <1>4, <1>5, <1>7 DEF ModeInv

\* What is left of the type, once the channel has its own.
LEMMA TurnsType ==
  ASSUME ModeTypeOK, NEW l, Turn(l), channel' \in Chan!Channel,
         NEW words \in Seq(Words), Tell(words) \/ TellNothing,
         Once(l) \/ UNCHANGED happened, params' \in Seq(Words)
  PROVE  ModeTypeOK' /\ happened \subseteq happened'
<1>1. /\ l \in Letters /\ Sign \in Signs /\ Letter = l /\ mods' \in Seq(Signs \X Letters)
      /\ UNCHANGED <<sender, before, pc>>
  BY TurnType
<1>2. happened' \subseteq Letters /\ happened \subseteq happened'
  BY <1>1, HappenedType DEF Once
<1>3. /\ modsToSend' \in Seq(Signs \cup Letters)
      /\ paramsToSend' \in Seq(Words) /\ last' \in Signs
  BY <1>1, TellType DEF TellNothing, ModeTypeOK
<1>4. before' \in Chan!Channel /\ sender' \in Users /\ pc' \in {"idle", "loop", "over"}
  BY <1>1 DEF ModeTypeOK
<1>5. (channel \in Chan!Channel /\ before \in Chan!Channel)'
  BY <1>1, <1>4 DEF Chan!Channel
<1> QED
  BY <1>1, <1>2, <1>3, <1>4, <1>5 DEF ModeTypeOK

LEMMA NoWords == <<>> \in Seq(Words)
  OBVIOUS

\* The modes that take no parameter or may do without.
LEMMA FlagTurns == ASSUME ModeInv, InviteOnly \/ TopicLock \/ LiftLimit PROVE ModeInv'
<1>1. ModeTypeOK /\ channel \in Chan!Channel /\ params \in Seq(Words)
  BY DEF ModeInv, ModeTypeOK
<1>2. 0 \in 1 .. MaxInt \cup {0} /\ \A b : (b = "+") \in BOOLEAN
  OBVIOUS
<1>3. /\ channel' \in Chan!Channel /\ Alike(channel, channel')
      /\ KeyFrom(channel, channel')
  BY <1>1 DEF InviteOnly, TopicLock, LiftLimit, Chan!Channel, Alike, KeyFrom
<1>4. params' \in Seq(Words)
  BY <1>1, ParamType DEF InviteOnly, TopicLock, LiftLimit
<1>5. PICK l : Turn(l) /\ Tell(<<>>) /\ (Once(l) \/ UNCHANGED happened)
  BY DEF InviteOnly, TopicLock, LiftLimit
<1> QED
  BY <1>1, <1>3, <1>4, <1>5, NoWords, TurnsType, SameLists

\* What is announced of a key: one word, but none of an empty key that is lifted.
LEMMA KeyWords ==
  ASSUME ModeTypeOK, SetKey \/ LiftKey, Head(params) \in Words
  PROVE  \/ LiftKey /\ channel.key = EmptyKey /\ Tell(<<>>) /\ <<>> \in Seq(Words)
         \/ \E w \in Words :
              /\ Tell(<<w>>) /\ <<w>> \in Seq(Words) /\ (Sign = "+" => w = Head(params))
              /\ LiftKey => channel.key # EmptyKey
<1>1. channel.key \in Words \cup {EmptyKey, NoKey} /\ EmptyKey # NoKey
  BY WordsAssumption DEF ModeTypeOK, Chan!Channel, AllKeys
<1>2. \A w \in Words : <<w>> \in Seq(Words) /\ <<>> \in Seq(Words)
  OBVIOUS
<1>3. CASE SetKey
  BY <1>2, <1>3 DEF SetKey, LiftKey
<1>4. CASE LiftKey
  BY <1>1, <1>2, <1>4 DEF LiftKey, Shown
<1> QED
  BY <1>3, <1>4

LEMMA KeyTurns == ASSUME ModeInv, SetKey \/ LiftKey PROVE ModeInv'
<1>1. ModeTypeOK /\ channel \in Chan!Channel /\ Turn("k") /\ Once("k")
  BY DEF ModeInv, ModeTypeOK, SetKey, LiftKey
<1>2. Head(params) \in Words /\ params' \in Seq(Words)
  BY <1>1, ParamType DEF SetKey, LiftKey
<1>3. /\ channel' \in Chan!Channel /\ Alike(channel, channel')
      /\ KeyFrom(channel, channel')
  BY <1>1, <1>2 DEF SetKey, LiftKey, Chan!Channel, Alike, KeyFrom, AllKeys
<1>4. PICK words \in Seq(Words) : Tell(words)
  BY <1>1, <1>2, KeyWords
<1>5. words \in Seq(Words)
  OBVIOUS
<1> QED
  BY <1>1, <1>2, <1>3, <1>4, <1>5, TurnsType, SameLists

LEMMA SetLimitTurn == ASSUME ModeInv, SetLimit PROVE ModeInv'
<1>1. ModeTypeOK /\ channel \in Chan!Channel /\ Turn("l") /\ UNCHANGED happened
  BY DEF ModeInv, ModeTypeOK, SetLimit
<1>2. /\ Head(params) \in Words /\ params' \in Seq(Words)
      /\ <<Head(params)>> \in Seq(Words)
  BY <1>1, ParamType DEF SetLimit
<1>3. PICK max \in Atoi(Head(params)) :
        IF IsLimit(max)
          THEN /\ channel' = [channel EXCEPT !.limit = max]
               /\ Tell(<<Head(params)>>)
          ELSE UNCHANGED channel /\ TellNothing
  BY DEF SetLimit
<1>4. IsLimit(max) => max \in 1 .. MaxInt
  BY <1>2, ValueAssumption DEF Atoi, Ints, IsLimit
<1>5. /\ channel' \in Chan!Channel /\ Alike(channel, channel')
      /\ KeyFrom(channel, channel')
  BY <1>1, <1>3, <1>4 DEF Chan!Channel, Alike, KeyFrom
<1>6. Tell(<<Head(params)>>) \/ TellNothing
  BY <1>3
<1> QED
  BY <1>1, <1>2, <1>5, <1>6, TurnsType, SameLists

LEMMA SkipTurn == ASSUME ModeInv, NEW l, Skip(l) PROVE ModeInv'
<1>1. ModeTypeOK /\ channel' \in Chan!Channel /\ params' \in Seq(Words)
  BY DEF ModeInv, ModeTypeOK, Skip
<1>2. /\ Turn(l) /\ TellNothing /\ UNCHANGED happened /\ Alike(channel, channel')
      /\ KeyFrom(channel, channel')
  BY DEF Skip, Alike, KeyFrom
<1> QED
  BY <1>1, <1>2, NoWords, TurnsType, SameLists

LEMMA CanBeNamed == \A u \in Users : Chan!CanBeNamed(u)
<1>1. ASSUME NEW u \in Users PROVE Chan!CanBeNamed(u)
  <2>1. u \in Nat /\ u <= u
    BY UsersAssumption
  <2>2. \A w \in Users : Called[w] = Called[u] => w = u
    BY CalledAssumption
  <2>3. \A w \in Users : <<Called[w]>> = <<Called[u]>> => w = u
    BY <2>2
  <2> QED
    BY <2>1, <2>3 DEF Chan!CanBeNamed, Chan!IsNamed, Chan!Bearers, Chan!Connected
<1> QED
  BY <1>1

LEMMA SetLevelTurn == ASSUME ModeInv, SetLevel PROVE ModeInv'
<1>1. /\ ModeTypeOK /\ channel \in Chan!Channel /\ before \in Chan!Channel
      /\ Turn("o") /\ Once("o") /\ pc = "loop" /\ UNCHANGED <<before, sender, pc>>
      /\ Tell(<<Head(params)>>) /\ params # <<>> /\ params' = Tail(params)
  BY DEF ModeInv, ModeTypeOK, SetLevel, Turn
<1>2. params' \in Seq(Words) /\ <<Head(params)>> \in Seq(Words)
  BY <1>1, ParamType
<1>3. PICK u \in Chan!Members(channel) :
        channel' = IF Sign = "+" THEN Chan!Promote(channel, u) ELSE Chan!Demote(channel, u)
  BY DEF SetLevel
<1>4. u \in Users
  BY <1>1, MemberIsUser
<1>5. channel' \in Chan!Channel
  BY <1>1, <1>3, <1>4, PromoteType, DemoteType
<1>6. ModeTypeOK'
  BY <1>1, <1>2, <1>5, TurnsType
<1>7. Alike(before, channel)
  BY <1>1 DEF ModeInv, Once
<1>8. u \in Chan!Nameable(before)
  BY <1>4, <1>7, CanBeNamed DEF Alike, Chan!Nameable, Chan!Members
<1>9. PICK ch \in Chan!Levels(before) : Alike(ch, channel')
  BY <1>1, <1>3, <1>7, <1>8, AlikeLevels DEF Chan!Levels
<1>10. Chan!Levels(before)' = Chan!Levels(before)
  BY <1>1, SameBefore
<1>11. Chan!Governs(before, sender)' /\ Chan!IsLive(before)'
  BY <1>1 DEF ModeInv, Chan!Governs, Chan!IsOperator, Chan!Holds, Chan!IsLive
<1>12. "o" \in happened'
  BY <1>1 DEF Once
<1>13. channel'.key = channel.key
  BY <1>1, <1>3 DEF Chan!Promote, Chan!Demote, Chan!Channel
<1>14. KeyFrom(before, channel)'
  BY <1>1, <1>13 DEF ModeInv, KeyFrom
<1> QED
  BY <1>1, <1>6, <1>9, <1>10, <1>11, <1>12, <1>14 DEF ModeInv

LEMMA SeqsUpToType == ASSUME NEW S, NEW n \in Nat, NEW s \in SeqsUpTo(S, n) PROVE s \in Seq(S)
<1>1. PICK m \in 0 .. n : s \in [1 .. m -> S]
  BY DEF SeqsUpTo
<1> QED
  BY <1>1

LEMMA StartTurn == ASSUME ModeInv, NEW u \in Users, Start(u) PROVE ModeInv'
<1>1. /\ ModeTypeOK /\ channel \in Chan!Channel /\ Chan!IsLive(channel)
      /\ pc' = "loop" /\ before' = channel /\ UNCHANGED <<channel, sender, last>>
      /\ Chan!Governs(channel, sender)
      /\ happened' = {} /\ modsToSend' = <<>> /\ paramsToSend' = <<>>
  BY DEF ModeInv, ModeTypeOK, Start
<1>2. mods' \in Seq(Signs \X Letters) /\ params' \in Seq(Words)
  BY SeqsUpToType, LengthsAssumption DEF Start
<1>3. ModeTypeOK'
  <2>1. modsToSend' \in Seq(Signs \cup Letters) /\ paramsToSend' \in Seq(Words)
    BY <1>1
  <2>2. (channel \in Chan!Channel /\ before \in Chan!Channel)'
    BY <1>1 DEF Chan!Channel
  <2> QED
    BY <1>1, <1>2, <2>1, <2>2 DEF ModeTypeOK
<1>4. (Chan!IsLive(before) /\ Chan!Governs(before, sender))'
  BY <1>1 DEF Chan!Governs, Chan!IsOperator, Chan!Holds, Chan!IsLive
<1>5. (before \in Chan!Levels(before))'
  BY DEF Chan!Levels
<1>6. Alike(before, channel)' /\ KeyFrom(before, channel)'
  BY <1>1 DEF Alike, KeyFrom
<1> QED
  BY <1>1, <1>3, <1>4, <1>5, <1>6 DEF ModeInv

LEMMA FinishTurn == ASSUME ModeInv, Finish PROVE ModeInv'
  BY DEF ModeInv, ModeTypeOK, Finish, Chan!Channel

LEMMA ModeInit == Init => ModeInv
<1> SUFFICES ASSUME Init PROVE ModeInv
  OBVIOUS
<1>1. channel \in Chan!Channel /\ Chan!IsLive(channel) /\ before = channel
  BY FoundAssumption DEF Init
<1> QED
  BY <1>1 DEF Init, ModeInv, ModeTypeOK

LEMMA ModeStep == ModeInv /\ [Next]_vars => ModeInv'
<1> SUFFICES ASSUME ModeInv, [Next]_vars PROVE ModeInv'
  OBVIOUS
<1>1. CASE UNCHANGED vars
  <2>1. UNCHANGED vars /\ UNCHANGED <<pc, channel, before, sender, happened>>
    BY <1>1 DEF vars
  <2>3. (channel \in Chan!Channel /\ before \in Chan!Channel)'
    BY <2>1 DEF ModeInv, ModeTypeOK, Chan!Channel
  <2>4. ModeTypeOK'
    BY <2>1, <2>3 DEF vars, ModeInv, ModeTypeOK
  <2>2. Chan!Levels(before)' = Chan!Levels(before)
    BY <2>1, SameBefore
  <2> QED
    BY <2>1, <2>2, <2>4 DEF ModeInv, Chan!Governs, Chan!IsOperator, Chan!Holds,
       Chan!IsLive, Alike, KeyFrom
<1>2. CASE Loop
  BY <1>2, FlagTurns, KeyTurns, SetLimitTurn, SetLevelTurn, SkipTurn, FinishTurn
     DEF Loop, NoSuchMember, Ignored
<1> QED
  BY <1>1, <1>2, StartTurn DEF Next

LEMMA ModeInvariant == Spec => []ModeInv
  BY ModeInit, ModeStep, PTL DEF Spec

\* The variables keep their types however many letters a command has: the limit
\* stays a positive int or none (atoi, and the test for what it returns), and a
\* parameter is taken from the queue only when there is one.
THEOREM ModeTypeCorrect == Spec => []ModeTypeOK
<1>1. ModeInv => ModeTypeOK
  BY DEF ModeInv
<1> QED
  BY <1>1, ModeInvariant, PTL

-----------------------------------------------------------------------------
(* The loop is one step of Channels *)

LEMMA LevelsType ==
  ASSUME NEW ch \in Chan!Channel PROVE Chan!Levels(ch) \subseteq Chan!Channel
<1>1. \A u \in Chan!Nameable(ch) : u \in Users
  BY MemberIsUser DEF Chan!Nameable
<1> QED
  BY <1>1, PromoteType, DemoteType DEF Chan!Levels

\* Alike channels differ in four modes at most.
LEMMA AlikeChannels ==
  ASSUME NEW ch \in Chan!Channel, NEW d \in Chan!Channel, Alike(ch, d)
  PROVE  d = [ch EXCEPT !.inviteOnly = d.inviteOnly, !.topicLock = d.topicLock,
                        !.key = d.key, !.limit = d.limit]
  BY DEF Chan!Channel, Alike

LEMMA FinishIsMode == ASSUME ModeInv, Finish PROVE Chan!Mode(sender, Here)
<1>1. /\ pc = "loop" /\ pc' = "over" /\ channel \in Chan!Channel /\ before \in Chan!Channel
      /\ sender \in Users /\ Chan!IsLive(before) /\ Chan!Governs(before, sender)
      /\ UNCHANGED <<channel, before>>
  BY DEF ModeInv, ModeTypeOK, Finish
<1>2. PICK ch \in Chan!Levels(before) : Alike(ch, channel)
  BY <1>1 DEF ModeInv
<1>3. ch \in Chan!Channel
  BY <1>1, LevelsType
<1>4. channel = [ch EXCEPT !.inviteOnly = channel.inviteOnly, !.topicLock = channel.topicLock,
                           !.key = channel.key, !.limit = channel.limit]
  BY <1>1, <1>2, <1>3, AlikeChannels
<1>5. /\ channel.inviteOnly \in BOOLEAN /\ channel.topicLock \in BOOLEAN
      /\ channel.key \in AllKeys \cup {NoKey}
      /\ channel.key \in Words \cup {NoKey, before.key} /\ channel.limit \in 1 .. MaxInt \cup {0}
  BY <1>1 DEF Chan!Channel, ModeInv, KeyFrom
<1>6. Outside = before /\ Outside' = channel
  BY <1>1 DEF Outside
<1>7. [c \in {Here} |-> Outside][Here] = before
  BY <1>6
<1>8. [c \in {Here} |-> Outside'] = [[c \in {Here} |-> Outside] EXCEPT ![Here] = channel]
  BY <1>6
<1>9. Chan!Asks(sender, "MODE")
  BY <1>1 DEF Chan!Asks, Chan!Idle, Chan!Running, Chan!Sends, Chan!Connected
<1>10. PICK i \in BOOLEAN, t \in BOOLEAN,
             k \in (AllKeys \ {EmptyKey}) \cup {NoKey, before.key},
             l \in 1 .. MaxInt \cup {0} :
         i = channel.inviteOnly /\ t = channel.topicLock /\ k = channel.key /\ l = channel.limit
  BY <1>5, WordsAssumption DEF AllKeys
<1>11. channel = [ch EXCEPT !.inviteOnly = i, !.topicLock = t, !.key = k, !.limit = l]
  BY <1>4, <1>10
<1> DEFINE chan == [c \in {Here} |-> Outside]
           After(d, x, y, z, n) ==
             [chan EXCEPT ![Here] = [d EXCEPT !.inviteOnly = x, !.topicLock = y,
                                              !.key = z, !.limit = n]]
<1>12. [c \in {Here} |-> Outside'] = After(ch, i, t, k, l)
  BY <1>8, <1>11
<1>13. ch \in Chan!Levels(chan[Here]) /\ chan[Here].key = before.key
  BY <1>7
<1> HIDE DEF chan, After
<1>14. \E x, y \in BOOLEAN,
          z \in (AllKeys \ {EmptyKey}) \cup {NoKey, chan[Here].key}, n \in 1 .. MaxInt \cup {0},
          d \in Chan!Levels(chan[Here]) : [c \in {Here} |-> Outside'] = After(d, x, y, z, n)
  BY <1>12, <1>13
<1> USE DEF chan, After
<1>15. Chan!IsLive(chan[Here]) /\ Chan!Governs(chan[Here], sender)
  BY <1>1, <1>7
<1> QED
  BY <1>9, <1>14, <1>15 DEF Chan!Mode, Chan!regVars

\* Mode::execute, with any letters and parameters, is one step Mode of Channels:
\* it is an operator's, and changes the level of at most one member.
THEOREM LoopIsOneStep == Spec => ModeIsOneStep
<1>1. ModeInv /\ [Next]_vars => [\E u \in Users : Chan!Mode(u, Here)]_Outside
  <2> SUFFICES ASSUME ModeInv, [Next]_vars, Outside' # Outside
               PROVE  \E u \in Users : Chan!Mode(u, Here)
    OBVIOUS
  <2>1. ~ UNCHANGED vars
    BY DEF vars, Outside
  <2>2. \A u \in Users : ~ Start(u)
    BY DEF Start, Outside
  <2>3. \A l : ~ Turn(l)
    BY DEF Turn, Outside
  <2>4. Finish
    BY <2>1, <2>2, <2>3 DEF Next, Loop, InviteOnly, TopicLock, SetKey, LiftKey, SetLimit,
       LiftLimit, SetLevel, NoSuchMember, Ignored, Skip
  <2> QED
    BY <2>4, FinishIsMode DEF ModeInv, ModeTypeOK
<1> QED
  BY <1>1, ModeInvariant, PTL DEF Spec, ModeIsOneStep

-----------------------------------------------------------------------------
(* What a reader makes of the beginning of an announcement *)

\* f has what is made of the first letters of s, for each number up to m.
Hearing(f, r, s, m) ==
  f = [n \in 0 .. m |-> IF n = 0 THEN r ELSE Reads(f[n - 1], s[n])]

LEMMA HearingExists ==
  ASSUME NEW r, NEW s PROVE \A m \in Nat : \E f : Hearing(f, r, s, m)
<1> DEFINE S == {m \in Nat : \E f : Hearing(f, r, s, m)}
<1>1. 0 \in S
  <2> DEFINE f == [n \in 0 .. 0 |-> r]
  <2>1. Hearing(f, r, s, 0)
    BY DEF Hearing
  <2> QED
    BY <2>1
<1>2. ASSUME NEW m \in S PROVE m + 1 \in S
  <2>1. PICK g : Hearing(g, r, s, m)
    OBVIOUS
  <2> DEFINE f == [n \in 0 .. m + 1 |-> IF n <= m THEN g[n] ELSE Reads(g[m], s[m + 1])]
  <2>2. m \in Nat
    OBVIOUS
  <2>3. ASSUME NEW n \in 0 .. m + 1
        PROVE  f[n] = IF n = 0 THEN r ELSE Reads(f[n - 1], s[n])
    <3>1. CASE n = 0
      BY <2>1, <3>1 DEF Hearing
    <3>2. CASE n \in 1 .. m
      <4>1. f[n - 1] = g[n - 1] /\ f[n] = g[n]
        BY <3>2
      <4> QED
        BY <2>1, <3>2, <4>1 DEF Hearing
    <3>3. CASE n = m + 1
      BY <3>3
    <3> QED
      BY <3>1, <3>2, <3>3
  <2>4. f = [n \in 0 .. m + 1 |-> f[n]]
    OBVIOUS
  <2> HIDE DEF f
  <2>5. \E h : Hearing(h, r, s, m + 1)
    BY <2>3, <2>4 DEF Hearing
  <2> QED
    BY <2>2, <2>5
<1>3. S \in SUBSET Nat
  OBVIOUS
<1> HIDE DEF S
<1>4. S = Nat
  BY <1>1, <1>2, <1>3, SetInduction
<1> QED
  BY <1>4 DEF S

LEMMA HeardByHearing ==
  ASSUME NEW r, NEW s, Len(s) \in Nat
  PROVE  \E f : Hearing(f, r, s, Len(s)) /\ Heard(s, r) = f[Len(s)]
<1> DEFINE f == CHOOSE f : Hearing(f, r, s, Len(s))
<1>1. Heard(s, r) = f[Len(s)]
  BY DEF Heard, Hearing
<1> HIDE DEF f
<1>2. Hearing(f, r, s, Len(s))
  BY HearingExists DEF f
<1> QED
  BY <1>1, <1>2

\* What has been made of the beginning does not depend on what follows.
LEMMA SameHearing ==
  ASSUME NEW r, NEW s, NEW t, NEW m \in Nat, \A n \in 1 .. m : s[n] = t[n],
         NEW k \in Nat, m <= k, NEW f, Hearing(f, r, s, m), NEW g, Hearing(g, r, t, k)
  PROVE  f[m] = g[m]
<1> DEFINE S == {n \in Nat : n <= m => f[n] = g[n]}
<1>1. 0 \in S
  BY DEF Hearing
<1>2. ASSUME NEW n \in S PROVE n + 1 \in S
  <2>1. SUFFICES ASSUME n + 1 <= m PROVE f[n + 1] = g[n + 1]
    OBVIOUS
  <2>2. n \in Nat /\ f[n] = g[n] /\ s[n + 1] = t[n + 1]
    BY <2>1
  <2>3. n + 1 \in 0 .. m /\ n + 1 \in 0 .. k /\ n + 1 # 0 /\ n + 1 - 1 = n
    BY <2>1, <2>2
  <2>4. f[n + 1] = Reads(f[n], s[n + 1])
    BY <2>3 DEF Hearing
  <2>5. g[n + 1] = Reads(g[n], t[n + 1])
    BY <2>3 DEF Hearing
  <2> QED
    BY <2>2, <2>4, <2>5
<1>3. S \in SUBSET Nat
  OBVIOUS
<1> HIDE DEF S
<1>4. S = Nat
  BY <1>1, <1>2, <1>3, SetInduction
<1> QED
  BY <1>4 DEF S

LEMMA HeardNothing == ASSUME NEW r PROVE Heard(<<>>, r) = r
<1>1. PICK f : Hearing(f, r, <<>>, 0) /\ Heard(<<>>, r) = f[0]
  BY HeardByHearing
<1> QED
  BY <1>1 DEF Hearing

LEMMA HeardOneMore ==
  ASSUME NEW r, NEW P, NEW s \in Seq(P), NEW b \in P
  PROVE  Heard(Append(s, b), r) = Reads(Heard(s, r), b)
<1>1. PICK k \in Nat : k = Len(s)
  OBVIOUS
<1> DEFINE t == Append(s, b)
<1>2. Len(t) = k + 1 /\ t[k + 1] = b /\ \A n \in 1 .. k : s[n] = t[n]
  BY <1>1
<1> HIDE DEF t
<1>3. PICK f : Hearing(f, r, s, k) /\ Heard(s, r) = f[k]
  BY <1>1, HeardByHearing
<1>4. PICK g : Hearing(g, r, t, k + 1) /\ Heard(t, r) = g[k + 1]
  BY <1>2, HeardByHearing
<1>5. k + 1 \in Nat /\ k <= k + 1 /\ k + 1 \in 0 .. k + 1 /\ k + 1 # 0 /\ k + 1 - 1 = k
  OBVIOUS
<1>6. f[k] = g[k]
  BY <1>2, <1>3, <1>4, <1>5, SameHearing
<1>7. g[k + 1] = Reads(g[k], t[k + 1])
  BY <1>4, <1>5 DEF Hearing
<1> QED
  BY <1>2, <1>3, <1>4, <1>6, <1>7 DEF t

\* A letter with the sign in front of it is read as two.
LEMMA HeardTwoMore ==
  ASSUME NEW r, NEW P, NEW s \in Seq(P), NEW a \in P, NEW b \in P
  PROVE  /\ Heard(s \o <<b>>, r) = Reads(Heard(s, r), b)
         /\ Heard(s \o <<a, b>>, r) = Reads(Reads(Heard(s, r), a), b)
<1>0. Append(s, a) \in Seq(P)
  OBVIOUS
<1>1. PICK t \in Seq(P) : t = Append(s, a)
  BY <1>0
<1>2. s \o <<b>> = Append(s, b)
  OBVIOUS
<1>3. s \o <<a, b>> = Append(t, b)
  BY <1>1
<1>4. Heard(Append(s, b), r) = Reads(Heard(s, r), b)
  BY HeardOneMore
<1>5. Heard(Append(s, a), r) = Reads(Heard(s, r), a)
  BY HeardOneMore
<1>6. Heard(Append(t, b), r) = Reads(Heard(t, r), b)
  BY HeardOneMore
<1>7. Heard(s \o <<b>>, r) = Reads(Heard(s, r), b)
  BY <1>2, <1>4
<1>8. Heard(s \o <<a, b>>, r) = Reads(Reads(Heard(s, r), a), b)
  BY <1>1, <1>3, <1>5, <1>6
<1> QED
  BY <1>7, <1>8

LEMMA LettersHeard ==
  ASSUME NEW r, NEW s \in Seq(Signs \cup Letters), NEW a \in Signs \cup Letters,
         NEW b \in Signs \cup Letters
  PROVE  /\ Heard(s \o <<b>>, r) = Reads(Heard(s, r), b)
         /\ Heard(s \o <<a, b>>, r) = Reads(Reads(Heard(s, r), a), b)
<1>1. PICK P : P = Signs \cup Letters
  OBVIOUS
<1>2. s \in Seq(P) /\ a \in P /\ b \in P
  BY <1>1
<1> QED
  BY <1>2, HeardTwoMore

-----------------------------------------------------------------------------
(* The announcement is true *)

\* A reader at some point of an announcement.
Reader(s, ch, words) == [sign |-> s, ch |-> ch, words |-> words]

\* A channel with one of its modes set.
WithInvite(ch, v) == [ch EXCEPT !.inviteOnly = v]
WithTopic(ch, v) == [ch EXCEPT !.topicLock = v]
WithKey(ch, v) == [ch EXCEPT !.key = v]
WithLimit(ch, l) == [ch EXCEPT !.limit = l]

LEMMA ReadsSign ==
  ASSUME NEW s, NEW ch, NEW words, NEW x \in Signs
  PROVE  Reads(Reader(s, ch, words), x) = Reader(x, ch, words)
  BY DEF Reads, Reader, Signs

LEMMA ReadsInviteOnly ==
  ASSUME NEW s, NEW ch, NEW words
  PROVE  Reads(Reader(s, ch, words), "i") =
           Reader(s, WithInvite(ch, s = "+"), words)
  BY DEF WithInvite, Reads, Reader, Signs

LEMMA ReadsTopicLock ==
  ASSUME NEW s, NEW ch, NEW words
  PROVE  Reads(Reader(s, ch, words), "t") =
           Reader(s, WithTopic(ch, s = "+"), words)
  BY DEF WithTopic, Reads, Reader, Signs

LEMMA ReadsKey ==
  ASSUME NEW s, NEW ch, NEW words
  PROVE  Reads(Reader(s, ch, words), "k") =
           Reader(s, WithKey(ch, IF s = "+" THEN First(words) ELSE NoKey), Rest(words))
  BY DEF WithKey, Reads, Reader, Signs

LEMMA ReadsNoLimit ==
  ASSUME NEW ch, NEW words
  PROVE  Reads(Reader("-", ch, words), "l") =
           Reader("-", WithLimit(ch, 0), words)
  BY DEF WithLimit, Reads, Reader, Signs

LEMMA ReadsLimit ==
  ASSUME NEW ch, NEW words, words # <<>>
  PROVE  Reads(Reader("+", ch, words), "l") =
           Reader("+", WithLimit(ch, Value[Head(words)]), Tail(words))
  BY DEF WithLimit, Reads, Reader, Signs

LEMMA ReadsLevel ==
  ASSUME NEW s, NEW ch, NEW words
  PROVE  Reads(Reader(s, ch, words), "o") =
           Reader(s, WithLevel(ch, s, First(words)), Rest(words))
  BY DEF Reads, Reader, Signs

SignNow == IF modsToSend = <<>> THEN "+" ELSE last

\* Whoever reads the announcement so far, with words x behind its own, has the
\* channel so far, with the words x left, but perhaps another limit l.
HeardSoFar(l) ==
  \A x \in Seq(Words) :
    Heard(modsToSend, Reader("+", before, paramsToSend \o x)) =
      Reader(SignNow, WithLimit(channel, l), x)

ProperNumbers == \A n \in 1 .. Len(paramsToSend) : Value[paramsToSend[n]] \in Ints

WholeTruth == \E l \in Int : HeardSoFar(l) /\ (ProperNumbers => l = channel.limit)

\* The modes of a channel that no number and no nickname is about.
SameModes(ch, d) ==
  ch.inviteOnly = d.inviteOnly /\ ch.topicLock = d.topicLock /\ ch.key = d.key

HearsModes(d, x) ==
  \E ch \in Chan!Channel, l \in Int, y \in Seq(Words) :
    /\ SameModes(ch, d)
    /\ Heard(modsToSend, Reader("+", before, paramsToSend \o x)) =
         Reader(SignNow, WithLimit(ch, l), y)

\* Whoever reads it without the word of an empty key has i, k and t as they are.
PartTruth == \A x \in Seq(Words) : HearsModes(channel, x)

TruthInv ==
  pc = "loop" =>
    /\ "k" \notin happened => channel.key = before.key
    /\ IF EmptyKeyLifted THEN PartTruth ELSE WholeTruth

\* A letter is told, and read after what has been read before it, with its sign.
LEMMA LetterHeard ==
  ASSUME ModeTypeOK, Sign \in Signs, Letter \in Letters,
         NEW words \in Seq(Words), Tell(words), UNCHANGED before, NEW x \in Seq(Words),
         NEW c, NEW y,
         Heard(modsToSend, Reader("+", before, paramsToSend \o (words \o x))) =
           Reader(SignNow, c, y)
  PROVE  Heard(modsToSend', Reader("+", before', paramsToSend' \o x)) =
           Reads(Reader(Sign, c, y), Letter)
<1>1. PICK s \in Seq(Signs \cup Letters), w \in Seq(Words) : s = modsToSend /\ w = paramsToSend
  BY DEF ModeTypeOK
<1>2. PICK a \in Signs \cup Letters, b \in Signs \cup Letters :
        a = Sign /\ b = Letter /\ a \in Signs
  OBVIOUS
<1>3. (w \o words) \o x = w \o (words \o x)
  BY Associative
<1>4. PICK r : r = Reader("+", before, w \o (words \o x))
  OBVIOUS
<1>5. Heard(s, r) = Reader(SignNow, c, y)
  BY <1>1, <1>4
<1>6. Reader("+", before', paramsToSend' \o x) = r
  BY <1>1, <1>3, <1>4 DEF Tell
<1>7. CASE last # Sign \/ modsToSend = <<>>
  <2>1. modsToSend' = s \o <<a, b>>
    BY <1>1, <1>2, <1>7 DEF Tell
  <2>2. \A q : Reads(Reader(q, c, y), a) = Reader(a, c, y)
    BY <1>2, ReadsSign
  <2>3. Heard(s \o <<a, b>>, r) = Reads(Reads(Heard(s, r), a), b)
    BY LettersHeard
  <2> QED
    BY <1>2, <1>5, <1>6, <2>1, <2>2, <2>3
<1>8. CASE last = Sign /\ modsToSend # <<>>
  <2>1. modsToSend' = s \o <<b>>
    BY <1>1, <1>2, <1>8 DEF Tell
  <2>2. SignNow = a
    BY <1>2, <1>8 DEF SignNow
  <2>3. Heard(s \o <<b>>, r) = Reads(Heard(s, r), b)
    BY LettersHeard
  <2> QED
    BY <1>2, <1>5, <1>6, <2>1, <2>2, <2>3
<1> QED
  BY <1>7, <1>8

\* The sign a reader is at is then the sign of the letter.
LEMMA SignTold == ASSUME ModeTypeOK, NEW words, Tell(words) PROVE SignNow' = Sign
<1>1. PICK s \in Seq(Signs \cup Letters) : s = modsToSend
  BY DEF ModeTypeOK
<1>2. \A a, b : s \o <<a, b>> # <<>> /\ s \o <<b>> # <<>>
  OBVIOUS
<1>3. modsToSend' # <<>> /\ last' = Sign
  BY <1>1, <1>2 DEF Tell
<1> QED
  BY <1>3 DEF SignNow

\* The letter is read as what becomes of the channel, by a reader to whom the
\* limit is l and will be k.
Outcome(l, words, k) ==
  \A x \in Seq(Words) :
    Reads(Reader(Sign, WithLimit(channel, l), words \o x), Letter) =
      Reader(Sign, WithLimit(channel', k), x)

\* If that is what has become of the channel, all stays true.
LEMMA TruthTold ==
  ASSUME ModeTypeOK, Sign \in Signs, Letter \in Letters, NEW l, HeardSoFar(l),
         NEW words \in Seq(Words), Tell(words), UNCHANGED before, NEW k \in Int,
         ProperNumbers' => k = channel'.limit, Outcome(l, words, k)
  PROVE  WholeTruth'
<1>1. SignNow' = Sign
  BY SignTold
<1>2. ASSUME NEW x \in Seq(Words)
      PROVE  Heard(modsToSend', Reader("+", before', paramsToSend' \o x)) =
               Reader(SignNow', WithLimit(channel', k), x)
  <2>1. words \o x \in Seq(Words)
    BY Concat
  <2>2. Heard(modsToSend, Reader("+", before, paramsToSend \o (words \o x))) =
          Reader(SignNow, WithLimit(channel, l), words \o x)
    BY <2>1 DEF HeardSoFar
  <2>3. Heard(modsToSend', Reader("+", before', paramsToSend' \o x)) =
          Reads(Reader(Sign, WithLimit(channel, l), words \o x), Letter)
    BY <2>2, LetterHeard
  <2> QED
    BY <1>1, <2>3 DEF Outcome
<1>3. HeardSoFar(k)'
  BY <1>2 DEF HeardSoFar
<1> QED
  BY <1>3 DEF WholeTruth

\* What is a number among more words is one among fewer.
LEMMA FewerNumbers ==
  ASSUME ModeTypeOK, NEW words \in Seq(Words), Tell(words), ProperNumbers'
  PROVE  ProperNumbers /\ \A n \in 1 .. Len(words) : Value[words[n]] \in Ints
<1>1. PICK w \in Seq(Words) : w = paramsToSend
  BY DEF ModeTypeOK
<1>2. paramsToSend' = w \o words
  BY <1>1 DEF Tell
<1>3. /\ \A n \in 1 .. Len(w) : n \in 1 .. Len(w \o words) /\ (w \o words)[n] = w[n]
      /\ \A n \in 1 .. Len(words) :
           Len(w) + n \in 1 .. Len(w \o words) /\ (w \o words)[Len(w) + n] = words[n]
  BY Concat
<1>4. \A n \in 1 .. Len(w \o words) : Value[(w \o words)[n]] \in Ints
  BY <1>2 DEF ProperNumbers
<1>5. \A n \in 1 .. Len(w) : Value[w[n]] \in Ints
  BY <1>3, <1>4
<1>6. \A n \in 1 .. Len(words) : Value[words[n]] \in Ints
  BY <1>3, <1>4
<1> QED
  BY <1>1, <1>5, <1>6 DEF ProperNumbers

\* What the modes of a channel are set to, its limit apart.
LEMMA InviteApart ==
  \A ch \in Chan!Channel : \A l, v :
    WithInvite(WithLimit(ch, l), v) = WithLimit(WithInvite(ch, v), l)
  BY DEF WithInvite, WithLimit, Chan!Channel

LEMMA TopicApart ==
  \A ch \in Chan!Channel : \A l, v :
    WithTopic(WithLimit(ch, l), v) = WithLimit(WithTopic(ch, v), l)
  BY DEF WithTopic, WithLimit, Chan!Channel

LEMMA KeyApart ==
  \A ch \in Chan!Channel : \A l, v :
    WithKey(WithLimit(ch, l), v) = WithLimit(WithKey(ch, v), l)
  BY DEF WithKey, WithLimit, Chan!Channel

LEMMA LimitOver ==
  /\ \A ch \in Chan!Channel : \A l, v : WithLimit(WithLimit(ch, l), v) = WithLimit(ch, v)
  /\ \A ch \in Chan!Channel : WithLimit(ch, ch.limit) = ch
<1>1. \A ch \in Chan!Channel : \A l, v : WithLimit(WithLimit(ch, l), v) = WithLimit(ch, v)
  BY DEF WithLimit, Chan!Channel
<1>2. \A ch \in Chan!Channel : WithLimit(ch, ch.limit) = ch
  BY DEF WithLimit, Chan!Channel
<1> QED
  BY <1>1, <1>2

LEMMA LevelApart ==
  ASSUME NEW ch \in Chan!Channel, NEW l, NEW u
  PROVE  /\ Chan!Members(WithLimit(ch, l)) = Chan!Members(ch)
         /\ Chan!Promote(WithLimit(ch, l), u) = WithLimit(Chan!Promote(ch, u), l)
         /\ Chan!Demote(WithLimit(ch, l), u) = WithLimit(Chan!Demote(ch, u), l)
<1>1. /\ WithLimit(ch, l).operators = ch.operators
      /\ WithLimit(ch, l).normal = ch.normal
  BY DEF WithLimit, Chan!Channel
<1>2. Chan!Members(WithLimit(ch, l)) = Chan!Members(ch)
  BY <1>1 DEF Chan!Members
<1>3. Chan!Promote(WithLimit(ch, l), u) = WithLimit(Chan!Promote(ch, u), l)
  BY <1>1 DEF WithLimit, Chan!Promote, Chan!IsOperator, Chan!Channel
<1>4. Chan!Demote(WithLimit(ch, l), u) = WithLimit(Chan!Demote(ch, u), l)
  BY <1>1 DEF WithLimit, Chan!Demote, Chan!IsNormal, Chan!Channel
<1> QED
  BY <1>2, <1>3, <1>4

LEMMA FirstWord ==
  ASSUME NEW w \in Words, NEW x \in Seq(Words)
  PROVE  /\ First(<<w>> \o x) = w /\ Rest(<<w>> \o x) = x
         /\ <<w>> \o x # <<>> /\ Head(<<w>> \o x) = w /\ Tail(<<w>> \o x) = x
         /\ <<w>> \in Seq(Words) /\ <<>> \o x = x
<1>1. /\ <<w>> \o x # <<>> /\ Head(<<w>> \o x) = w /\ <<>> \o x = x
      /\ <<w>> \in Seq(Words)
  OBVIOUS
<1>2. Tail(<<w>> \o x) = x
  OBVIOUS
<1> QED
  BY <1>1, <1>2 DEF First, Rest

LEMMA FlagTruth ==
  ASSUME ModeTypeOK, WholeTruth, InviteOnly \/ TopicLock PROVE WholeTruth'
<1>1. /\ channel \in Chan!Channel /\ pc = "loop" /\ UNCHANGED before
      /\ Tell(<<>>) /\ Sign \in Signs /\ Letter \in Letters
  BY TurnType DEF ModeTypeOK, InviteOnly, TopicLock, Turn
<1>2. PICK l \in Int : HeardSoFar(l) /\ (ProperNumbers => l = channel.limit)
  BY <1>1 DEF WholeTruth
<1>3. channel'.limit = channel.limit
  BY <1>1 DEF InviteOnly, TopicLock, Chan!Channel
<1>4. ProperNumbers' => l = channel'.limit
  BY <1>1, <1>2, <1>3, NoWords, FewerNumbers
<1>5. Outcome(l, <<>>, l)
  <2>1. \A x \in Seq(Words) : <<>> \o x = x
    OBVIOUS
  <2>2. CASE InviteOnly
    <3>1. Letter = "i" /\ channel' = WithInvite(channel, Sign = "+")
      BY <2>2 DEF InviteOnly, Turn, WithInvite
    <3>2. \A v : WithLimit(WithInvite(channel, v), l) = WithInvite(WithLimit(channel, l), v)
      BY <1>1, InviteApart
    <3>3. WithLimit(channel', l) = WithInvite(WithLimit(channel, l), Sign = "+")
      BY <3>1, <3>2
    <3> QED
      BY <2>1, <3>1, <3>3, ReadsInviteOnly DEF Outcome
  <2>3. CASE TopicLock
    <3>1. Letter = "t" /\ channel' = WithTopic(channel, Sign = "+")
      BY <2>3 DEF TopicLock, Turn, WithTopic
    <3>2. \A v : WithLimit(WithTopic(channel, v), l) = WithTopic(WithLimit(channel, l), v)
      BY <1>1, TopicApart
    <3>3. WithLimit(channel', l) = WithTopic(WithLimit(channel, l), Sign = "+")
      BY <3>1, <3>2
    <3> QED
      BY <2>1, <3>1, <3>3, ReadsTopicLock DEF Outcome
  <2> QED
    BY <2>2, <2>3
<1> QED
  BY <1>1, <1>2, <1>4, <1>5, NoWords, TruthTold

LEMMA KeyTruth ==
  ASSUME ModeTypeOK, WholeTruth, SetKey \/ LiftKey, ~ (LiftKey /\ channel.key = EmptyKey)
  PROVE  WholeTruth'
<1>1. /\ channel \in Chan!Channel /\ pc = "loop" /\ UNCHANGED before /\ Letter = "k"
      /\ Sign \in Signs /\ Letter \in Letters /\ Head(params) \in Words
  BY TurnType, ParamType DEF ModeTypeOK, SetKey, LiftKey, Turn
<1>2. PICK l \in Int : HeardSoFar(l) /\ (ProperNumbers => l = channel.limit)
  BY <1>1 DEF WholeTruth
<1>3. channel'.limit = channel.limit
  BY <1>1 DEF SetKey, LiftKey, Chan!Channel
<1>4. PICK w \in Words : Tell(<<w>>) /\ (Sign = "+" => SetKey /\ w = Head(params))
  BY <1>1, KeyWords DEF SetKey, LiftKey
<1>5. <<w>> \in Seq(Words)
  OBVIOUS
<1>6. ProperNumbers' => l = channel'.limit
  BY <1>2, <1>3, <1>4, <1>5, FewerNumbers
<1>7. channel' = WithKey(channel, IF Sign = "+" THEN w ELSE NoKey)
  BY <1>4 DEF SetKey, LiftKey, WithKey
<1>8. Outcome(l, <<w>>, l)
  <2>1. ASSUME NEW x \in Seq(Words)
        PROVE  Reads(Reader(Sign, WithLimit(channel, l), <<w>> \o x), Letter) =
                 Reader(Sign, WithLimit(channel', l), x)
    <3>1. First(<<w>> \o x) = w /\ Rest(<<w>> \o x) = x
      BY FirstWord
    <3>2. WithLimit(channel', l) =
            WithKey(WithLimit(channel, l), IF Sign = "+" THEN w ELSE NoKey)
      BY <1>1, <1>7, KeyApart
    <3>3. Reads(Reader(Sign, WithLimit(channel, l), <<w>> \o x), "k") =
            Reader(Sign, WithKey(WithLimit(channel, l),
                                 IF Sign = "+" THEN First(<<w>> \o x) ELSE NoKey),
                   Rest(<<w>> \o x))
      BY ReadsKey
    <3> QED
      BY <1>1, <3>1, <3>2, <3>3
  <2> QED
    BY <2>1 DEF Outcome
<1> QED
  BY <1>1, <1>2, <1>4, <1>5, <1>6, <1>8, TruthTold

LEMMA LimitTruth ==
  ASSUME ModeTypeOK, WholeTruth, LiftLimit PROVE WholeTruth'
<1>1. /\ channel \in Chan!Channel /\ pc = "loop" /\ UNCHANGED before
      /\ Tell(<<>>) /\ Sign = "-" /\ Sign \in Signs /\ Letter = "l" /\ Letter \in Letters
  BY TurnType DEF ModeTypeOK, LiftLimit, Turn
<1>2. PICK l \in Int : HeardSoFar(l)
  BY <1>1 DEF WholeTruth
<1>3. PICK k \in Int : k = 0
  OBVIOUS
<1>4. channel' = WithLimit(channel, k) /\ channel'.limit = k
  BY <1>1, <1>3 DEF LiftLimit, WithLimit, Chan!Channel
<1>5. WithLimit(channel', k) = WithLimit(WithLimit(channel, l), k)
  BY <1>1, <1>4, LimitOver
<1>6. Outcome(l, <<>>, k)
  <2>1. \A x \in Seq(Words) : <<>> \o x = x
    OBVIOUS
  <2> QED
    BY <1>1, <1>3, <1>5, <2>1, ReadsNoLimit DEF Outcome
<1> QED
  BY <1>1, <1>2, <1>4, <1>6, NoWords, TruthTold

LEMMA QuietTruth ==
  ASSUME WholeTruth, UNCHANGED <<channel, before, modsToSend, paramsToSend, last>>
  PROVE  WholeTruth'
<1>1. PICK l \in Int : HeardSoFar(l) /\ (ProperNumbers => l = channel.limit)
  BY DEF WholeTruth
<1>2. SignNow' = SignNow
  BY DEF SignNow
<1>3. HeardSoFar(l)'
  BY <1>1, <1>2 DEF HeardSoFar
<1>4. ProperNumbers' => l = channel'.limit
  BY <1>1 DEF ProperNumbers
<1> QED
  BY <1>3, <1>4 DEF WholeTruth

LEMMA SetLimitTruth ==
  ASSUME ModeTypeOK, WholeTruth, SetLimit PROVE WholeTruth'
<1>1. /\ channel \in Chan!Channel /\ pc = "loop" /\ UNCHANGED before /\ Sign = "+"
      /\ Sign \in Signs /\ Letter = "l" /\ Letter \in Letters /\ Head(params) \in Words
  BY TurnType, ParamType DEF ModeTypeOK, SetLimit, Turn
<1>2. PICK max \in Atoi(Head(params)) :
        IF IsLimit(max)
          THEN /\ channel' = [channel EXCEPT !.limit = max]
               /\ Tell(<<Head(params)>>)
          ELSE UNCHANGED channel /\ TellNothing
  BY DEF SetLimit
<1>3. CASE ~ IsLimit(max)
  BY <1>1, <1>2, <1>3, QuietTruth DEF TellNothing
<1>4. CASE IsLimit(max)
  <2>1. PICK w \in Words : w = Head(params) /\ Tell(<<w>>)
    BY <1>1, <1>2, <1>4
  <2>2. PICK l \in Int : HeardSoFar(l)
    BY <1>1 DEF WholeTruth
  <2>3. <<w>> \in Seq(Words) /\ Value[w] \in Int /\ Len(<<w>>) = 1 /\ <<w>>[1] = w
    BY ValueAssumption
  <2>4. channel' = WithLimit(channel, max) /\ channel'.limit = max
    BY <1>1, <1>2, <1>4 DEF WithLimit, Chan!Channel
  <2>5. ProperNumbers' => \A n \in 1 .. Len(<<w>>) : Value[<<w>>[n]] \in Ints
    BY <2>1, <2>3, FewerNumbers
  <2>6. ProperNumbers' => Value[w] = channel'.limit
    BY <1>2, <2>1, <2>3, <2>4, <2>5 DEF Atoi
  <2>7. PICK k \in Int : k = Value[w]
    BY <2>3
  <2>8. WithLimit(channel', k) = WithLimit(WithLimit(channel, l), k)
    BY <1>1, <2>4, LimitOver
  <2>9. Outcome(l, <<w>>, k)
    <3>1. ASSUME NEW x \in Seq(Words)
          PROVE  Reads(Reader("+", WithLimit(channel, l), <<w>> \o x), "l") =
                   Reader("+", WithLimit(channel', k), x)
      <4>1. <<w>> \o x # <<>> /\ Head(<<w>> \o x) = w /\ Tail(<<w>> \o x) = x
        BY FirstWord
      <4>2. Reads(Reader("+", WithLimit(channel, l), <<w>> \o x), "l") =
              Reader("+", WithLimit(WithLimit(channel, l), Value[Head(<<w>> \o x)]),
                     Tail(<<w>> \o x))
        BY <4>1, ReadsLimit
      <4> QED
        BY <2>7, <2>8, <4>1, <4>2
    <3> QED
      BY <1>1, <3>1 DEF Outcome
  <2> QED
    BY <1>1, <2>1, <2>2, <2>3, <2>6, <2>7, <2>9, TruthTold
<1> QED
  BY <1>3, <1>4

LEMMA LevelTruth ==
  ASSUME ModeTypeOK, WholeTruth, SetLevel PROVE WholeTruth'
<1>1. /\ channel \in Chan!Channel /\ pc = "loop" /\ UNCHANGED before
      /\ Sign \in Signs /\ Letter = "o" /\ Letter \in Letters /\ Head(params) \in Words
  BY TurnType, ParamType DEF ModeTypeOK, SetLevel, Turn
<1>2. PICK w \in Words : w = Head(params) /\ Tell(<<w>>)
  BY <1>1 DEF SetLevel
<1>3. PICK u \in Chan!Members(channel) :
        /\ Called[u] = w
        /\ channel' = IF Sign = "+" THEN Chan!Promote(channel, u) ELSE Chan!Demote(channel, u)
  BY <1>2 DEF SetLevel
<1>4. PICK l \in Int : HeardSoFar(l) /\ (ProperNumbers => l = channel.limit)
  BY <1>1 DEF WholeTruth
<1>5. <<w>> \in Seq(Words)
  OBVIOUS
<1>6. channel'.limit = channel.limit
  BY <1>1, <1>3 DEF Chan!Promote, Chan!Demote, Chan!Channel
<1>7. ProperNumbers' => l = channel'.limit
  BY <1>2, <1>4, <1>5, <1>6, FewerNumbers
<1>8. u = CHOOSE v \in Users : Called[v] = w
  BY <1>1, <1>3, MemberIsUser, CalledAssumption
<1>9. WithLevel(WithLimit(channel, l), Sign, w) = WithLimit(channel', l)
  <2>1. u \in Chan!Members(WithLimit(channel, l))
    BY <1>1, <1>3, LevelApart
  <2>2. WithLevel(WithLimit(channel, l), Sign, w) =
          IF Sign = "+" THEN Chan!Promote(WithLimit(channel, l), u)
                        ELSE Chan!Demote(WithLimit(channel, l), u)
    BY <1>3, <1>8, <2>1 DEF WithLevel
  <2> QED
    BY <1>1, <1>3, <2>2, LevelApart
<1>10. Outcome(l, <<w>>, l)
  BY <1>1, <1>9, FirstWord, ReadsLevel DEF Outcome
<1> QED
  BY <1>1, <1>2, <1>4, <1>5, <1>7, <1>10, TruthTold

-----------------------------------------------------------------------------
(* What remains true once an empty key has been lifted *)

LEMMA QuietPart ==
  ASSUME PartTruth, UNCHANGED <<channel, before, modsToSend, paramsToSend, last>>
  PROVE  PartTruth'
<1>1. SignNow' = SignNow
  BY DEF SignNow
<1>2. ASSUME NEW x \in Seq(Words) PROVE HearsModes(channel, x)'
  <2>1. HearsModes(channel, x)
    BY DEF PartTruth
  <2> QED
    BY <1>1, <2>1 DEF HearsModes, SameModes
<1> QED
  BY <1>2 DEF PartTruth

\* The letter is read as a channel with the modes of d.
ReadsAs(ch, l, y, d) ==
  \E c \in Chan!Channel, m \in Int, z \in Seq(Words) :
    /\ SameModes(c, d)
    /\ Reads(Reader(Sign, WithLimit(ch, l), y), Letter) = Reader(Sign, WithLimit(c, m), z)

LEMMA PartTold ==
  ASSUME ModeTypeOK, Sign \in Signs, Letter \in Letters, PartTruth,
         NEW words \in Seq(Words), Tell(words), UNCHANGED before,
         \A ch \in Chan!Channel, l \in Int, y \in Seq(Words) :
           SameModes(ch, channel) => ReadsAs(ch, l, y, channel')
  PROVE  PartTruth'
<1>1. ASSUME NEW x \in Seq(Words) PROVE HearsModes(channel, x)'
  <2>1. words \o x \in Seq(Words)
    BY Concat
  <2>2. PICK ch \in Chan!Channel, l \in Int, y \in Seq(Words) :
          /\ SameModes(ch, channel)
          /\ Heard(modsToSend, Reader("+", before, paramsToSend \o (words \o x))) =
               Reader(SignNow, WithLimit(ch, l), y)
    BY <2>1 DEF PartTruth, HearsModes
  <2>3. PICK c \in Chan!Channel, m \in Int, z \in Seq(Words) :
          /\ SameModes(c, channel')
          /\ Reads(Reader(Sign, WithLimit(ch, l), y), Letter) = Reader(Sign, WithLimit(c, m), z)
    BY <2>2 DEF ReadsAs
  <2>4. Heard(modsToSend', Reader("+", before', paramsToSend' \o x)) =
          Reads(Reader(Sign, WithLimit(ch, l), y), Letter)
    BY <2>2, LetterHeard
  <2>5. SignNow' = Sign
    BY SignTold
  <2>6. SameModes(c, channel)'
    BY <2>3 DEF SameModes
  <2> QED
    BY <2>3, <2>4, <2>5, <2>6 DEF HearsModes
<1> QED
  BY <1>1 DEF PartTruth

LEMMA ReadsNoWord ==
  ASSUME NEW s, NEW ch, NEW words, ~ (s = "+" /\ words # <<>>)
  PROVE  Reads(Reader(s, ch, words), "l") = Reader(s, WithLimit(ch, 0), words)
  BY DEF WithLimit, Reads, Reader, Signs

LEMMA RestType == ASSUME NEW y \in Seq(Words) PROVE Rest(y) \in Seq(Words)
<1>1. y # <<>> => Tail(y) \in Seq(Words)
  OBVIOUS
<1>2. <<>> \in Seq(Words)
  OBVIOUS
<1> QED
  BY <1>1, <1>2 DEF Rest

\* What becomes of the modes, by a letter that is not k.
LEMMA FlagsRead ==
  ASSUME ModeTypeOK, InviteOnly \/ TopicLock, NEW ch \in Chan!Channel, NEW l \in Int,
         NEW y \in Seq(Words), SameModes(ch, channel)
  PROVE  ReadsAs(ch, l, y, channel')
<1>1. channel \in Chan!Channel
  BY DEF ModeTypeOK
<1>2. CASE InviteOnly
  <2>1. Letter = "i" /\ channel' = WithInvite(channel, Sign = "+")
    BY <1>2 DEF InviteOnly, Turn, WithInvite
  <2>2. PICK b \in BOOLEAN : b = (Sign = "+")
    OBVIOUS
  <2>3. WithInvite(ch, b) \in Chan!Channel /\ SameModes(WithInvite(ch, b), channel')
    BY <1>1, <2>1, <2>2 DEF WithInvite, Chan!Channel, SameModes
  <2>4. Reads(Reader(Sign, WithLimit(ch, l), y), Letter) =
          Reader(Sign, WithInvite(WithLimit(ch, l), b), y)
    BY <2>1, <2>2, ReadsInviteOnly
  <2>5. WithInvite(WithLimit(ch, l), b) = WithLimit(WithInvite(ch, b), l)
    BY InviteApart
  <2> QED
    BY <2>3, <2>4, <2>5 DEF ReadsAs
<1>3. CASE TopicLock
  <2>1. Letter = "t" /\ channel' = WithTopic(channel, Sign = "+")
    BY <1>3 DEF TopicLock, Turn, WithTopic
  <2>2. PICK b \in BOOLEAN : b = (Sign = "+")
    OBVIOUS
  <2>3. WithTopic(ch, b) \in Chan!Channel /\ SameModes(WithTopic(ch, b), channel')
    BY <1>1, <2>1, <2>2 DEF WithTopic, Chan!Channel, SameModes
  <2>4. Reads(Reader(Sign, WithLimit(ch, l), y), Letter) =
          Reader(Sign, WithTopic(WithLimit(ch, l), b), y)
    BY <2>1, <2>2, ReadsTopicLock
  <2>5. WithTopic(WithLimit(ch, l), b) = WithLimit(WithTopic(ch, b), l)
    BY TopicApart
  <2> QED
    BY <2>3, <2>4, <2>5 DEF ReadsAs
<1> QED
  BY <1>2, <1>3

LEMMA LimitRead ==
  ASSUME Letter = "l", SameModes(channel, channel'), NEW ch \in Chan!Channel, NEW l \in Int,
         NEW y \in Seq(Words), SameModes(ch, channel)
  PROVE  ReadsAs(ch, l, y, channel')
<1>1. SameModes(ch, channel')
  BY DEF SameModes
<1>2. CASE Sign = "+" /\ y # <<>>
  <2>1. Head(y) \in Words /\ Tail(y) \in Seq(Words)
    BY <1>2
  <2>2. PICK v \in Int : v = Value[Head(y)]
    BY <2>1, ValueAssumption
  <2>3. Reads(Reader(Sign, WithLimit(ch, l), y), Letter) =
          Reader(Sign, WithLimit(WithLimit(ch, l), v), Tail(y))
    BY <1>2, <2>2, ReadsLimit
  <2>4. WithLimit(WithLimit(ch, l), v) = WithLimit(ch, v)
    BY LimitOver
  <2> QED
    BY <1>1, <2>1, <2>3, <2>4 DEF ReadsAs
<1>3. CASE ~ (Sign = "+" /\ y # <<>>)
  <2>1. PICK v \in Int : v = 0
    OBVIOUS
  <2>2. Reads(Reader(Sign, WithLimit(ch, l), y), Letter) =
          Reader(Sign, WithLimit(WithLimit(ch, l), v), y)
    BY <1>3, <2>1, ReadsNoWord
  <2>3. WithLimit(WithLimit(ch, l), v) = WithLimit(ch, v)
    BY LimitOver
  <2> QED
    BY <1>1, <2>2, <2>3 DEF ReadsAs
<1> QED
  BY <1>2, <1>3

LEMMA LevelModes ==
  ASSUME NEW ch \in Chan!Channel, NEW u
  PROVE  SameModes(Chan!Promote(ch, u), ch) /\ SameModes(Chan!Demote(ch, u), ch)
  BY DEF SameModes, Chan!Promote, Chan!Demote, Chan!Channel

LEMMA LevelRead ==
  ASSUME Letter = "o", SameModes(channel, channel'), NEW ch \in Chan!Channel, NEW l \in Int,
         NEW y \in Seq(Words), SameModes(ch, channel)
  PROVE  ReadsAs(ch, l, y, channel')
<1>1. SameModes(ch, channel') /\ Rest(y) \in Seq(Words)
  BY RestType DEF SameModes
<1>2. PICK w : w = First(y)
  OBVIOUS
<1>3. Reads(Reader(Sign, WithLimit(ch, l), y), Letter) =
        Reader(Sign, WithLevel(WithLimit(ch, l), Sign, w), Rest(y))
  BY <1>2, ReadsLevel
<1>4. Chan!Members(WithLimit(ch, l)) = Chan!Members(ch)
  BY LevelApart
<1>5. CASE \E u \in Chan!Members(ch) : Called[u] = w
  <2>1. PICK u \in Users : u = CHOOSE v \in Users : Called[v] = w
    BY <1>5, MemberIsUser
  <2>2. PICK c : c = IF Sign = "+" THEN Chan!Promote(ch, u) ELSE Chan!Demote(ch, u)
    OBVIOUS
  <2>3. c \in Chan!Channel /\ SameModes(c, ch)
    BY <2>2, PromoteType, DemoteType, LevelModes
  <2>4. WithLevel(WithLimit(ch, l), Sign, w) =
          IF Sign = "+" THEN Chan!Promote(WithLimit(ch, l), u)
                        ELSE Chan!Demote(WithLimit(ch, l), u)
    BY <1>4, <1>5, <2>1 DEF WithLevel
  <2>5. WithLevel(WithLimit(ch, l), Sign, w) = WithLimit(c, l)
    BY <2>2, <2>4, LevelApart
  <2>6. SameModes(c, channel')
    BY <1>1, <2>3 DEF SameModes
  <2> QED
    BY <1>1, <1>3, <2>3, <2>5, <2>6 DEF ReadsAs
<1>6. CASE ~ \E u \in Chan!Members(ch) : Called[u] = w
  <2>1. WithLevel(WithLimit(ch, l), Sign, w) = WithLimit(ch, l)
    BY <1>4, <1>6 DEF WithLevel
  <2> QED
    BY <1>1, <1>3, <2>1 DEF ReadsAs
<1> QED
  BY <1>5, <1>6

LEMMA PartTurn ==
  ASSUME ModeTypeOK, PartTruth,
         InviteOnly \/ TopicLock \/ SetLimit \/ LiftLimit \/ SetLevel
  PROVE  PartTruth'
<1>1. /\ channel \in Chan!Channel /\ UNCHANGED before /\ Sign \in Signs /\ Letter \in Letters
      /\ Letter \in {"i", "t", "l", "o"}
  BY TurnType DEF ModeTypeOK, InviteOnly, TopicLock, SetLimit, LiftLimit, SetLevel, Turn
<1>2. CASE InviteOnly \/ TopicLock
  <2>1. Tell(<<>>) /\ <<>> \in Seq(Words)
    BY <1>2 DEF InviteOnly, TopicLock
  <2>2. \A ch \in Chan!Channel, l \in Int, y \in Seq(Words) :
          SameModes(ch, channel) => ReadsAs(ch, l, y, channel')
    BY <1>2, FlagsRead
  <2> QED
    BY <1>1, <2>1, <2>2, PartTold
<1>3. CASE LiftLimit
  <2>1. Tell(<<>>) /\ <<>> \in Seq(Words) /\ Letter = "l"
    BY <1>3 DEF LiftLimit, Turn
  <2>2. SameModes(channel, channel')
    BY <1>1, <1>3 DEF LiftLimit, SameModes, Chan!Channel
  <2> QED
    BY <1>1, <2>1, <2>2, LimitRead, PartTold
<1>4. CASE SetLimit
  <2>1. Letter = "l" /\ <<Head(params)>> \in Seq(Words)
    BY <1>4, ParamType DEF SetLimit, Turn
  <2>2. PICK max \in Atoi(Head(params)) :
          IF IsLimit(max)
            THEN /\ channel' = [channel EXCEPT !.limit = max]
                 /\ Tell(<<Head(params)>>)
            ELSE UNCHANGED channel /\ TellNothing
    BY <1>4 DEF SetLimit
  <2>3. CASE IsLimit(max)
    <3>1. Tell(<<Head(params)>>) /\ SameModes(channel, channel')
      BY <1>1, <2>2, <2>3 DEF SameModes, Chan!Channel
    <3> QED
      BY <1>1, <2>1, <3>1, LimitRead, PartTold
  <2>4. CASE ~ IsLimit(max)
    BY <1>1, <2>2, <2>4, QuietPart DEF TellNothing
  <2> QED
    BY <2>3, <2>4
<1>5. CASE SetLevel
  <2>1. Letter = "o" /\ Tell(<<Head(params)>>) /\ <<Head(params)>> \in Seq(Words)
    BY <1>5, ParamType DEF SetLevel, Turn
  <2>2. SameModes(channel, channel')
    BY <1>1, <1>5, LevelModes DEF SetLevel, SameModes
  <2> QED
    BY <1>1, <2>1, <2>2, LevelRead, PartTold
<1> QED
  BY <1>2, <1>3, <1>4, <1>5

\* The k of an empty key takes the word of what follows, but is itself right.
LEMMA EmptyKeyTruth ==
  ASSUME ModeTypeOK, WholeTruth, LiftKey, channel.key = EmptyKey PROVE PartTruth'
<1>1. /\ channel \in Chan!Channel /\ UNCHANGED before /\ Letter = "k" /\ Sign = "-"
      /\ Sign \in Signs /\ Letter \in Letters
  BY TurnType DEF ModeTypeOK, LiftKey, Turn
<1>2. Tell(<<>>) /\ <<>> \in Seq(Words)
  BY WordsAssumption DEF LiftKey, Shown
<1>3. PICK l \in Int : HeardSoFar(l)
  BY DEF WholeTruth
<1>4. PICK c : c = WithKey(channel, NoKey)
  OBVIOUS
<1>5. c \in Chan!Channel /\ channel' = c
  BY <1>1, <1>4 DEF LiftKey, WithKey, Chan!Channel
<1>6. ASSUME NEW x \in Seq(Words) PROVE HearsModes(channel, x)'
  <2>1. <<>> \o x = x
    OBVIOUS
  <2>2. Heard(modsToSend, Reader("+", before, paramsToSend \o x)) =
          Reader(SignNow, WithLimit(channel, l), x)
    BY <1>3 DEF HeardSoFar
  <2>3. Heard(modsToSend', Reader("+", before', paramsToSend' \o x)) =
          Reads(Reader(Sign, WithLimit(channel, l), x), Letter)
    <3>1. PICK none \in Seq(Words) : none = <<>>
      BY <1>2
    <3>2. Tell(none) /\ UNCHANGED before /\ Sign \in Signs /\ Letter \in Letters
      BY <1>1, <1>2, <3>1
    <3>3. PICK b : b = WithLimit(channel, l)
      OBVIOUS
    <3>4. Heard(modsToSend, Reader("+", before, paramsToSend \o (none \o x))) =
            Reader(SignNow, b, x)
      BY <2>1, <2>2, <3>1, <3>3
    <3>5. Heard(modsToSend', Reader("+", before', paramsToSend' \o x)) =
            Reads(Reader(Sign, b, x), Letter)
      BY <3>2, <3>4, LetterHeard
    <3> QED
      BY <3>3, <3>5
  <2>4. Reads(Reader(Sign, WithLimit(channel, l), x), Letter) =
          Reader(Sign, WithKey(WithLimit(channel, l), NoKey), Rest(x))
    BY <1>1, ReadsKey
  <2>5. WithKey(WithLimit(channel, l), NoKey) = WithLimit(c, l)
    BY <1>1, <1>4, KeyApart
  <2>6. SignNow' = Sign /\ Rest(x) \in Seq(Words) /\ SameModes(c, channel')
    BY <1>2, <1>5, SignTold, RestType DEF SameModes
  <2>7. Heard(modsToSend', Reader("+", before', paramsToSend' \o x)) =
          Reader(SignNow', WithLimit(c, l), Rest(x))
    BY <2>3, <2>4, <2>5, <2>6
  <2> QED
    BY <1>5, <2>6, <2>7 DEF HearsModes, SameModes
<1> QED
  BY <1>6 DEF PartTruth

-----------------------------------------------------------------------------
(* The whole loop *)

LEMMA StartTruth == ASSUME ModeTypeOK, NEW u, Start(u) PROVE TruthInv'
<1>1. /\ channel \in Chan!Channel /\ before' = channel /\ channel' = channel
      /\ modsToSend' = <<>> /\ paramsToSend' = <<>>
  BY DEF ModeTypeOK, Start
<1>0. channel.limit \in Int
  <2>1. channel.limit \in 1 .. MaxInt \cup {0}
    BY <1>1 DEF Chan!Channel
  <2> QED
    BY <2>1, ValueAssumption
<1>2. PICK l \in Int : l = channel.limit
  BY <1>0
<1>3. ASSUME NEW x \in Seq(Words)
      PROVE  Heard(<<>>, Reader("+", channel, <<>> \o x)) =
               Reader("+", WithLimit(channel, l), x)
  <2>1. <<>> \o x = x
    OBVIOUS
  <2> QED
    BY <1>1, <1>2, <2>1, HeardNothing, LimitOver
<1>4. SignNow' = "+"
  BY <1>1 DEF SignNow
<1>5. HeardSoFar(l)'
  BY <1>1, <1>3, <1>4 DEF HeardSoFar
<1>6. WholeTruth'
  BY <1>1, <1>2, <1>5 DEF WholeTruth
<1>7. ~ EmptyKeyLifted' /\ channel'.key = before'.key
  BY <1>1, WordsAssumption DEF EmptyKeyLifted
<1> QED
  BY <1>6, <1>7 DEF TruthInv

\* All turns but those of k leave the key, and what has become of it, as they are.
LEMMA OtherTurn ==
  ASSUME ModeTypeOK, TruthInv,
         InviteOnly \/ TopicLock \/ SetLimit \/ LiftLimit \/ SetLevel
  PROVE  TruthInv'
<1>1. channel \in Chan!Channel /\ pc = "loop" /\ UNCHANGED before
  BY DEF ModeTypeOK, InviteOnly, TopicLock, SetLimit, LiftLimit, SetLevel, Turn
<1>2. channel'.key = channel.key
  <2>1. CASE SetLevel
    BY <1>1, <2>1 DEF SetLevel, Chan!Promote, Chan!Demote, Chan!Channel
  <2>2. CASE InviteOnly \/ TopicLock \/ SetLimit \/ LiftLimit
    BY <1>1, <2>2 DEF InviteOnly, TopicLock, SetLimit, LiftLimit, Chan!Channel
  <2> QED
    BY <2>1, <2>2
<1>3. EmptyKeyLifted' = EmptyKeyLifted
  BY <1>1, <1>2 DEF EmptyKeyLifted
<1>4. "k" \notin happened' => "k" \notin happened
  BY DEF InviteOnly, TopicLock, SetLimit, LiftLimit, SetLevel, Once
<1>5. CASE EmptyKeyLifted
  <2>1. PartTruth'
    BY <1>1, <1>5, PartTurn DEF TruthInv
  <2> QED
    BY <1>1, <1>2, <1>3, <1>4, <1>5, <2>1 DEF TruthInv
<1>6. CASE ~ EmptyKeyLifted
  <2>1. WholeTruth'
    BY <1>1, <1>6, FlagTruth, LimitTruth, SetLimitTruth, LevelTruth DEF TruthInv
  <2> QED
    BY <1>1, <1>2, <1>3, <1>4, <1>6, <2>1 DEF TruthInv
<1> QED
  BY <1>5, <1>6

LEMMA KeyTurn == ASSUME ModeTypeOK, TruthInv, SetKey \/ LiftKey PROVE TruthInv'
<1>1. /\ channel \in Chan!Channel /\ pc = "loop" /\ UNCHANGED before
      /\ channel.key = before.key /\ "k" \in happened'
  BY DEF ModeTypeOK, SetKey, LiftKey, Turn, Once, TruthInv
<1>2. ~ EmptyKeyLifted /\ WholeTruth
  BY <1>1, WordsAssumption DEF EmptyKeyLifted, TruthInv
<1>3. CASE LiftKey /\ channel.key = EmptyKey
  <2>1. EmptyKeyLifted'
    BY <1>1, <1>3 DEF EmptyKeyLifted, LiftKey, Chan!Channel
  <2> QED
    BY <1>1, <1>2, <1>3, <2>1, EmptyKeyTruth DEF TruthInv
<1>4. CASE ~ (LiftKey /\ channel.key = EmptyKey)
  <2>1. ~ EmptyKeyLifted'
    <3>1. CASE SetKey
      <4>1. Head(params) \in Words /\ channel'.key = Head(params)
        BY <1>1, <3>1, ParamType DEF SetKey, Chan!Channel
      <4> QED
        BY <4>1, WordsAssumption DEF EmptyKeyLifted
    <3>2. CASE LiftKey
      BY <1>1, <1>4, <3>2 DEF EmptyKeyLifted
    <3> QED
      BY <3>1, <3>2
  <2> QED
    BY <1>1, <1>2, <1>4, <2>1, KeyTruth DEF TruthInv
<1> QED
  BY <1>3, <1>4

LEMMA QuietTurn ==
  ASSUME TruthInv,
         UNCHANGED <<channel, before, modsToSend, paramsToSend, last, pc, happened>>
  PROVE  TruthInv'
<1>1. EmptyKeyLifted' = EmptyKeyLifted
  BY DEF EmptyKeyLifted
<1> QED
  BY <1>1, QuietTruth, QuietPart DEF TruthInv

LEMMA TruthStep == ModeTypeOK /\ TruthInv /\ [Next]_vars => TruthInv'
<1> SUFFICES ASSUME ModeTypeOK, TruthInv, [Next]_vars PROVE TruthInv'
  OBVIOUS
<1>1. CASE UNCHANGED vars
  BY <1>1, QuietTurn DEF vars
<1>2. ASSUME NEW l, Skip(l) PROVE TruthInv'
  BY <1>2, QuietTurn DEF Skip, Turn, TellNothing
<1>3. CASE Loop
  <2>1. CASE Finish
    BY <2>1 DEF Finish, TruthInv
  <2> QED
    BY <1>2, <1>3, <2>1, OtherTurn, KeyTurn DEF Loop, NoSuchMember, Ignored
<1> QED
  BY <1>1, <1>3, StartTruth DEF Next

LEMMA ToldByReader ==
  ASSUME ModeTypeOK, NEW c, NEW y, NEW q,
         Heard(modsToSend, Reader("+", before, paramsToSend \o <<>>)) = Reader(q, c, y)
  PROVE  Told = c
<1>1. PICK w \in Seq(Words) : w = paramsToSend
  BY DEF ModeTypeOK
<1>2. w \o <<>> = w
  OBVIOUS
<1> QED
  BY <1>1, <1>2 DEF Told, Reader

LEMMA WholeIsTold ==
  ASSUME ModeTypeOK, WholeTruth
  PROVE  /\ [Told EXCEPT !.limit = channel.limit] = channel
         /\ (\A n \in DOMAIN paramsToSend : Value[paramsToSend[n]] \in Ints)
              => Told.limit = channel.limit
         /\ Told.inviteOnly = channel.inviteOnly
         /\ Told.topicLock = channel.topicLock
         /\ Told.key = channel.key
<1>1. channel \in Chan!Channel /\ paramsToSend \in Seq(Words) /\ <<>> \in Seq(Words)
  BY DEF ModeTypeOK
<1>2. PICK l \in Int : HeardSoFar(l) /\ (ProperNumbers => l = channel.limit)
  BY DEF WholeTruth
<1>3. Told = WithLimit(channel, l)
  BY <1>1, <1>2, ToldByReader DEF HeardSoFar
<1>4. /\ [WithLimit(channel, l) EXCEPT !.limit = channel.limit] = channel
      /\ WithLimit(channel, l).limit = l
      /\ SameModes(WithLimit(channel, l), channel)
  BY <1>1 DEF WithLimit, Chan!Channel, SameModes
<1>5. DOMAIN paramsToSend = 1 .. Len(paramsToSend)
  BY <1>1
<1> QED
  BY <1>2, <1>3, <1>4, <1>5 DEF ProperNumbers, SameModes

LEMMA PartIsTold ==
  ASSUME ModeTypeOK, PartTruth PROVE SameModes(Told, channel)
<1>1. <<>> \in Seq(Words)
  OBVIOUS
<1>2. PICK ch \in Chan!Channel, l \in Int, y \in Seq(Words) :
        /\ SameModes(ch, channel)
        /\ Heard(modsToSend, Reader("+", before, paramsToSend \o <<>>)) =
             Reader(SignNow, WithLimit(ch, l), y)
  BY <1>1 DEF PartTruth, HearsModes
<1>3. Told = WithLimit(ch, l)
  BY <1>2, ToldByReader
<1>4. SameModes(WithLimit(ch, l), ch)
  BY DEF WithLimit, SameModes, Chan!Channel
<1> QED
  BY <1>2, <1>3, <1>4 DEF SameModes

LEMMA TruthIsTold == ModeTypeOK /\ TruthInv => AnnouncementIsTrue
<1> SUFFICES ASSUME ModeTypeOK, TruthInv, pc = "loop" PROVE AnnouncementIsTrue
  BY DEF AnnouncementIsTrue
<1>1. CASE EmptyKeyLifted
  BY <1>1, PartIsTold DEF AnnouncementIsTrue, TruthInv, SameModes
<1>2. CASE ~ EmptyKeyLifted
  BY <1>2, WholeIsTold DEF AnnouncementIsTrue, TruthInv
<1> QED
  BY <1>1, <1>2

\* What Mode::execute has put together at any point of its loop tells a member
\* what has become of the channel, sign by sign and parameter by parameter, unless
\* an empty key has been lifted: then of i, k and t only.  The limit is as announced
\* if all the numbers announced are ints.
THEOREM AnnouncementStaysTrue == Spec => []AnnouncementIsTrue
<1>1. Init => TruthInv
  BY DEF Init, TruthInv
<1>2. ModeInv => ModeTypeOK
  BY DEF ModeInv
<1> QED
  BY <1>1, <1>2, ModeInvariant, TruthStep, TruthIsTold, PTL DEF Spec

=============================================================================
