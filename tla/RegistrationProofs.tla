------------------------- MODULE RegistrationProofs -------------------------
(***************************************************************************)
(* Proofs about Registration: the nicknames stay exclusive, the identity   *)
(* of a client keeps up with its status, and the statuses implement Login, *)
(* for any set of clients, of nicknames and of commands.                   *)
(***************************************************************************)
EXTENDS Registration, TLAPS

\* The inductive invariant.  A connected client has at least one name, so that
\* an error reply appended to it is longer than any nickname.
RegInv ==
  /\ TypeOK
  /\ \A u \in Connected : nick[u] # <<>>
  /\ NickExclusive
  /\ IdentityMatchesStatus

-----------------------------------------------------------------------------
(* Nicknames as sequences *)

LEMMA StarLength == Star # <<>> /\ Len(Star) = 1
  BY DEF Star

LEMMA NickLength == \A n : Len(<<n>>) = 1 /\ <<n>> # <<>>
  OBVIOUS

\* A nickname that isNickValid accepts is not the one of a new client.
LEMMA NickNotStar == ASSUME NEW n \in Nicks PROVE <<n>> # Star
  BY NicksAssumption DEF Star

\* An error reply is no nickname: it is longer than one.
LEMMA MangledLength ==
  ASSUME NEW S, NEW s \in Seq(S), NEW r \in S, s # <<>>
  PROVE  /\ Append(s, r) \in Seq(S)
         /\ Len(Append(s, r)) > 1
         /\ Append(s, r) # <<>>
         /\ Append(s, r) # Star
<1>1. Len(s) \in Nat /\ Len(s) # 0
  OBVIOUS
<1>2. Append(s, r) \in Seq(S) /\ Len(Append(s, r)) = Len(s) + 1
  OBVIOUS
<1>3. Len(Append(s, r)) > 1
  BY <1>1, <1>2
<1>4. Append(s, r) # <<>> /\ Append(s, r) # Star
  BY <1>3, StarLength
<1> QED
  BY <1>2, <1>3, <1>4

-----------------------------------------------------------------------------
(* Each action preserves the invariant *)

LEMMA InitInv == RegInit => RegInv
<1> SUFFICES ASSUME RegInit PROVE RegInv
  OBVIOUS
<1>1. TypeOK
  BY DEF RegInit, TypeOK, Statuses
<1>2. Connected = {}
  BY DEF RegInit, Connected
<1>3. IdentityMatchesStatus
  BY DEF RegInit, IdentityMatchesStatus
<1> QED
  BY <1>1, <1>2, <1>3 DEF RegInv, NickExclusive

LEMMA AcceptInv ==
  ASSUME RegInv, NEW u \in Users, Accept(u) PROVE RegInv'
<1> USE DEF RegInv, Accept
<1>1. TypeOK'
  BY DEF TypeOK, Statuses, Star
<1>2. \A v \in Connected' : nick'[v] # <<>>
  BY StarLength DEF TypeOK, Connected
<1>3. NickExclusive'
  BY DEF NickExclusive, TypeOK, Connected
<1>4. IdentityMatchesStatus'
  BY DEF IdentityMatchesStatus, TypeOK
<1> QED
  BY <1>1, <1>2, <1>3, <1>4

LEMMA PassInv ==
  ASSUME RegInv, NEW u \in Users, Pass(u) PROVE RegInv'
<1> USE DEF RegInv, Pass, Sends
<1>1. TypeOK'
  BY DEF TypeOK, Statuses
<1>2. Connected' = Connected
  BY DEF TypeOK, Connected
<1>3. NickExclusive' /\ \A v \in Connected' : nick'[v] # <<>>
  BY <1>2 DEF NickExclusive
<1>4. IdentityMatchesStatus'
  BY DEF IdentityMatchesStatus, TypeOK
<1> QED
  BY <1>1, <1>3, <1>4

LEMMA NickInv ==
  ASSUME RegInv, NEW u \in Users, NEW n \in Nicks, Nick(u, n) PROVE RegInv'
<1> USE DEF RegInv, Nick, Sends
<1>1. TypeOK'
  BY DEF TypeOK, Statuses, AfterNick
<1>2. Connected' = Connected
  BY DEF TypeOK, Connected, AfterNick
<1>3. \A v \in Connected' : nick'[v] # <<>>
  BY <1>2, NickLength DEF TypeOK
<1>4. NickExclusive'
  <2>1. \A v \in Connected : nick[v] # <<n>>
    BY DEF NickInUse, Bearers
  <2> SUFFICES ASSUME NEW v \in Connected, NEW w \in Connected,
                      nick'[v] = nick'[w], v # w
               PROVE  nick'[v] = Star \/ Len(nick'[v]) > 1
    BY <1>2 DEF NickExclusive
  <2>2. nick[v] = nick[w] /\ nick'[v] = nick[v]
    <3>1. \A x \in Users : nick'[x] = IF x = u THEN <<n>> ELSE nick[x]
      BY DEF TypeOK
    <3>2. v \in Users /\ w \in Users
      BY DEF Connected
    <3>3. v # u /\ w # u
      BY <2>1, <3>1, <3>2
    <3> QED
      BY <3>1, <3>2, <3>3
  <2>3. nick[v] = Star \/ Len(nick[v]) > 1
    BY <2>2 DEF NickExclusive
  <2> QED
    BY <2>2, <2>3
<1>5. IdentityMatchesStatus'
  BY NickNotStar DEF IdentityMatchesStatus, TypeOK, AfterNick, Connected
<1> QED
  BY <1>1, <1>3, <1>4, <1>5

LEMMA UserCmdInv ==
  ASSUME RegInv, NEW u \in Users, UserCmd(u) PROVE RegInv'
<1> USE DEF RegInv, UserCmd, Sends
<1>1. TypeOK'
  BY DEF TypeOK, Statuses, AfterUser
<1>2. Connected' = Connected
  BY DEF TypeOK, Connected, AfterUser
<1>3. NickExclusive' /\ \A v \in Connected' : nick'[v] # <<>>
  BY <1>2 DEF NickExclusive
<1>4. IdentityMatchesStatus'
  BY DEF IdentityMatchesStatus, TypeOK, AfterUser, Connected
<1> QED
  BY <1>1, <1>3, <1>4

LEMMA OperInv ==
  ASSUME RegInv, NEW u \in Users, Oper(u) \/ ModeSelf(u) PROVE RegInv'
<1> USE DEF RegInv, Oper, ModeSelf, Sends
<1>1. TypeOK'
  BY DEF TypeOK
<1>2. NickExclusive' /\ \A v \in Connected' : nick'[v] # <<>>
  BY DEF NickExclusive, Connected
<1>3. IdentityMatchesStatus'
  BY DEF IdentityMatchesStatus, TypeOK
<1> QED
  BY <1>1, <1>2, <1>3

LEMMA MangleInv ==
  ASSUME RegInv, NEW u \in Connected, NEW r \in Nicks \cup {"461"}, Mangle(u, r)
  PROVE  RegInv'
<1> USE DEF RegInv, Mangle
<1>0. u \in Users
  BY DEF Connected
<1>1. /\ nick'[u] \in Seq(Nicks \cup {"*", "461"})
      /\ Len(nick'[u]) > 1
      /\ nick'[u] # <<>>
      /\ nick'[u] # Star
  <2> DEFINE Names == Nicks \cup {"*", "461"}
  <2>1. nick[u] \in Seq(Names) /\ nick[u] # <<>> /\ r \in Names
    BY <1>0 DEF TypeOK
  <2>2. nick'[u] = Append(nick[u], r)
    BY <1>0 DEF TypeOK
  <2> HIDE DEF Names
  <2>3. nick'[u] \in Seq(Names) /\ Len(nick'[u]) > 1 /\ nick'[u] # <<>> /\ nick'[u] # Star
    BY <2>1, <2>2, MangledLength
  <2> QED
    BY <2>3 DEF Names
<1>2. TypeOK'
  BY <1>1 DEF TypeOK
<1>3. Connected' = Connected
  BY DEF Connected
<1>4. \A v \in Connected' : nick'[v] # <<>>
  BY <1>1, <1>3 DEF TypeOK, Connected
<1>5. NickExclusive'
  BY <1>1, <1>3 DEF NickExclusive, TypeOK, Connected
<1>6. IdentityMatchesStatus'
  BY <1>1 DEF IdentityMatchesStatus, TypeOK
<1> QED
  BY <1>2, <1>4, <1>5, <1>6

LEMMA DisconnectInv ==
  ASSUME RegInv, NEW u \in Users, Disconnect(u) PROVE RegInv'
<1> USE DEF RegInv, Disconnect, Sends
<1>1. TypeOK'
  BY DEF TypeOK, Statuses
<1>2. Connected' = Connected \ {u}
  BY DEF TypeOK, Connected
<1>3. NickExclusive' /\ \A v \in Connected' : nick'[v] # <<>>
  BY <1>2 DEF NickExclusive, TypeOK, Connected
<1>4. IdentityMatchesStatus'
  BY DEF IdentityMatchesStatus, TypeOK
<1> QED
  BY <1>1, <1>3, <1>4

\* The steps of one client that touch no channel.
LEMMA IdentificationInv ==
  ASSUME RegInv, NEW u \in Users, Identification(u) PROVE RegInv'
<1>1. CASE Accept(u)
  BY <1>1, AcceptInv
<1>2. CASE Pass(u)
  BY <1>2, PassInv
<1>3. CASE \E n \in Nicks : Nick(u, n)
  BY <1>3, NickInv
<1>4. CASE UserCmd(u)
  BY <1>4, UserCmdInv
<1>5. CASE Oper(u) \/ ModeSelf(u)
  BY <1>5, OperInv
<1>6. CASE \E n \in Nicks : PrivmsgNobody(u, n)
  BY <1>6, MangleInv DEF PrivmsgNobody, Sends
<1>7. CASE OperShort(u)
  BY <1>7, MangleInv DEF OperShort, Sends
<1> QED
  BY <1>1, <1>2, <1>3, <1>4, <1>5, <1>6, <1>7 DEF Identification

LEMMA StutterInv == RegInv /\ UNCHANGED regVars => RegInv'
  BY DEF RegInv, regVars, TypeOK, NickExclusive, IdentityMatchesStatus, Connected

LEMMA StepInv == RegInv /\ [RegNext]_regVars => RegInv'
<1> SUFFICES ASSUME RegInv, RegNext PROVE RegInv'
  BY StutterInv
<1> PICK u \in Users : Identification(u) \/ Disconnect(u)
  BY DEF RegNext
<1> QED
  BY IdentificationInv, DisconnectInv

LEMMA RegistrationInvariant == RegSpec => []RegInv
  BY InitInv, StepInv, PTL DEF RegSpec

\* The state always has its type.
THEOREM TypeCorrect == RegSpec => []TypeOK
<1>1. RegInv => TypeOK
  BY DEF RegInv
<1> QED
  BY <1>1, RegistrationInvariant, PTL

\* Two clients never bear the same nickname, whatever they send.
THEOREM NicknamesAreExclusive == RegSpec => []NickExclusive
<1>1. RegInv => NickExclusive
  BY DEF RegInv
<1> QED
  BY <1>1, RegistrationInvariant, PTL

\* The identity a status stands for is there, whichever way it was reached.
THEOREM IdentityKeepsUp == RegSpec => []IdentityMatchesStatus
<1>1. RegInv => IdentityMatchesStatus
  BY DEF RegInv
<1> QED
  BY <1>1, RegistrationInvariant, PTL

-----------------------------------------------------------------------------
(* Registration implements Login *)

AbstractGiven == [u \in Users |-> Given(status[u])]

LEMMA GivenAfterNick ==
  ASSUME NEW s \in Statuses, s # "GONE", s # "CONNECTED"
  PROVE  /\ "PASS" \in Given(s)
         /\ Given(AfterNick(s)) = Given(s) \cup {"NICK"}
  BY DEF Statuses, Given, AfterNick

LEMMA GivenAfterUser ==
  ASSUME NEW s \in Statuses, s \notin {"GONE", "CONNECTED", "REGISTERED"}
  PROVE  /\ "PASS" \in Given(s)
         /\ Given(AfterUser(s)) = Given(s) \cup {"USER"}
  BY DEF Statuses, Given, AfterUser

\* A status written to one slot rewrites what that slot has given, only.
LEMMA GivenExcept ==
  ASSUME TypeOK, NEW u \in Users, NEW s, status' = [status EXCEPT ![u] = s]
  PROVE  AbstractGiven' = [AbstractGiven EXCEPT ![u] = Given(s)]
  BY DEF AbstractGiven, TypeOK

LEMMA GivenSame == UNCHANGED status => AbstractGiven' = AbstractGiven
  BY DEF AbstractGiven

LEMMA StepImplementsLogin ==
  ASSUME TypeOK, NEW u \in Users, Identification(u) \/ Disconnect(u)
  PROVE  L!Next \/ UNCHANGED <<AbstractGiven, serverOp>>
<1> USE DEF Sends, Connected
<1>0. status[u] \in Statuses /\ AbstractGiven[u] = Given(status[u])
  BY DEF TypeOK, AbstractGiven
<1>1. CASE Accept(u)
  <2>1. AbstractGiven' = [AbstractGiven EXCEPT ![u] = Given("CONNECTED")]
    BY <1>1, GivenExcept DEF Accept
  <2>2. Given("CONNECTED") = Given(status[u])
    BY <1>1 DEF Accept, Given
  <2> QED
    BY <1>0, <1>1, <2>1, <2>2 DEF Accept, AbstractGiven
<1>2. CASE Pass(u)
  <2>1. AbstractGiven' = [AbstractGiven EXCEPT ![u] = {"PASS"}]
    BY <1>2, GivenExcept DEF Pass, Given
  <2> QED
    BY <1>2, <2>1 DEF Pass, AbstractGiven, L!Next, L!Authenticate
<1>3. CASE \E n \in Nicks : Nick(u, n)
  <2>1. PICK n \in Nicks : Nick(u, n)
    BY <1>3
  <2>2. AbstractGiven' = [AbstractGiven EXCEPT ![u] = Given(AfterNick(status[u]))]
    BY <2>1, GivenExcept DEF Nick
  <2>3. AbstractGiven' = [AbstractGiven EXCEPT ![u] = @ \cup {"NICK"}]
    BY <1>0, <2>1, <2>2, GivenAfterNick DEF Nick
  <2> QED
    BY <1>0, <2>1, <2>3, GivenAfterNick DEF Nick, AbstractGiven, L!Next, L!Identify
<1>4. CASE UserCmd(u)
  <2>2. AbstractGiven' = [AbstractGiven EXCEPT ![u] = Given(AfterUser(status[u]))]
    BY <1>4, GivenExcept DEF UserCmd
  <2>3. AbstractGiven' = [AbstractGiven EXCEPT ![u] = @ \cup {"USER"}]
    BY <1>0, <1>4, <2>2, GivenAfterUser DEF UserCmd
  <2> QED
    BY <1>0, <1>4, <2>3, GivenAfterUser DEF UserCmd, AbstractGiven, L!Next, L!Identify
<1>5. CASE Oper(u)
  BY <1>0, <1>5 DEF Oper, AbstractGiven, Given, L!Next, L!BecomeOperator, L!Parts
<1>6. CASE ModeSelf(u)
  BY <1>0, <1>6 DEF ModeSelf, AbstractGiven, Given, L!Next, L!StepDown, L!Parts
<1>7. CASE (\E n \in Nicks : PrivmsgNobody(u, n)) \/ OperShort(u)
  BY <1>7, GivenSame DEF PrivmsgNobody, OperShort, Mangle
<1>8. CASE Disconnect(u)
  <2>1. AbstractGiven' = [AbstractGiven EXCEPT ![u] = Given("GONE")]
    BY <1>8, GivenExcept DEF Disconnect
  <2>2. Given("GONE") = {}
    BY DEF Given
  <2> QED
    BY <1>8, <2>1, <2>2 DEF Disconnect, AbstractGiven, L!Next, L!Leave
<1> QED
  BY <1>1, <1>2, <1>3, <1>4, <1>5, <1>6, <1>7, <1>8 DEF Identification

\* A client gives the password first, then its two identities in either order,
\* and only a client that gave all three becomes a server operator.
THEOREM RegistrationImplementsLogin == RegSpec => LoginSpec
<1>1. RegInit => L!Init
  BY DEF RegInit, Given, L!Init
<1>2. TypeOK /\ [RegNext]_regVars => [L!Next]_<<AbstractGiven, serverOp>>
  <2> SUFFICES ASSUME TypeOK, RegNext
               PROVE  L!Next \/ UNCHANGED <<AbstractGiven, serverOp>>
    BY GivenSame DEF regVars
  <2> QED
    BY StepImplementsLogin DEF RegNext
<1> QED
  BY <1>1, <1>2, TypeCorrect, PTL DEF RegSpec, LoginSpec, L!Spec, AbstractGiven

=============================================================================
