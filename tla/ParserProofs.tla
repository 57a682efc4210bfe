---------------------------- MODULE ParserProofs ----------------------------
(***************************************************************************)
(* Proofs about Parser, for buffers of any length and of any letters.      *)
(*                                                                         *)
(* The first lemmas are about the definition of a line: a set of positions *)
(* in order, the words of a text and of a text with more, the lines of a   *)
(* buffer, a message that gets one more word.  The invariant then says     *)
(* what the streams have been through, and each extraction keeps it.  The  *)
(* last two parts are about the definition alone: a message is written and *)
(* read back, and carriage returns are taken out line by line.             *)
(***************************************************************************)
EXTENDS Parser, Induction, FiniteSetTheorems

-----------------------------------------------------------------------------
(* Numbers from left to right *)

LEMMA Finite == ASSUME NEW n \in Nat, NEW at \in SUBSET (1 .. n) PROVE IsFiniteSet(at)
<1>1. IsFiniteSet(1 .. n)
  BY FS_Interval
<1> QED
  BY <1>1, FS_Subset

LEMMA MinOfOne == ASSUME NEW n \in Nat PROVE Min({n}) = n
  BY DEF Min

Below(at, n) == {m \in at : m <= n}

\* The numbers of at that are the j-th of them: just one.
Ranked(at, j) == {m \in at : Cardinality(Below(at, m)) = j}

LEMMA OrderedIs ==
  ASSUME NEW at PROVE Ordered(at) = [j \in 1 .. Cardinality(at) |-> Min(Ranked(at, j))]
  BY DEF Ordered, Below, Ranked

LEMMA OrderedEmpty == Ordered({}) = <<>>
<1>1. Cardinality({}) = 0
  BY FS_EmptySet
<1>2. 1 .. 0 = {}
  OBVIOUS
<1> QED
  BY <1>1, <1>2, OrderedIs

Gains(bt, at, k) == bt = at \cup {k}

LEMMA RankedMore ==
  ASSUME NEW n \in Nat, NEW at \in SUBSET (1 .. n), NEW k \in Nat, n < k,
         NEW bt, Gains(bt, at, k)
  PROVE  /\ Cardinality(at) \in Nat /\ Cardinality(bt) = Cardinality(at) + 1
         /\ \A j \in 1 .. Cardinality(at) : Ranked(bt, j) = Ranked(at, j)
         /\ Ranked(bt, Cardinality(at) + 1) = {k}
<1>1. IsFiniteSet(at)
  BY Finite
<1>2. \A m \in at : m \in Nat /\ m < k
  OBVIOUS
<1>3. k \notin at
  BY <1>2
<1>4. Cardinality(at) \in Nat
  BY <1>1, FS_CardinalityType
<1>5. PICK c \in Nat : c = Cardinality(at)
  BY <1>4
<1>6. Cardinality(bt) = c + 1
  BY <1>1, <1>3, <1>5, FS_AddElement DEF Gains
<1>7. \A m : m \in bt <=> m \in at \/ m = k
  BY DEF Gains
<1>8. ASSUME NEW m \in at PROVE Below(bt, m) = Below(at, m)
  <2>1. \A x : x \in bt /\ x <= m <=> x \in at /\ x <= m
    BY <1>2, <1>7
  <2> QED
    BY <2>1 DEF Below
<1>9. Below(bt, k) = bt
  <2>1. ASSUME NEW x \in bt PROVE x <= k
    <3>1. CASE x \in at
      BY <1>2, <3>1
    <3>2. CASE x = k
      BY <3>2
    <3> QED
      BY <1>7, <3>1, <3>2
  <2> QED
    BY <2>1 DEF Below
<1>10. ASSUME NEW m \in at
       PROVE  Cardinality(Below(at, m)) \in Nat /\ Cardinality(Below(at, m)) <= c
  <2>1. Below(at, m) \in SUBSET at
    BY DEF Below
  <2>2. IsFiniteSet(Below(at, m)) /\ Cardinality(Below(at, m)) <= c
    BY <1>1, <1>5, <2>1, FS_Subset
  <2> QED
    BY <2>2, FS_CardinalityType
<1>11. ASSUME NEW j \in 1 .. c PROVE Ranked(bt, j) = Ranked(at, j)
  <2>1. ASSUME NEW m
        PROVE  (m \in bt /\ Cardinality(Below(bt, m)) = j)
                 <=> (m \in at /\ Cardinality(Below(at, m)) = j)
    <3>1. CASE m \in at
      BY <1>7, <1>8, <3>1
    <3>2. CASE m = k
      BY <1>3, <1>6, <1>9, <3>2
    <3>3. CASE m \notin at /\ m # k
      BY <1>7, <3>3
    <3> QED
      BY <3>1, <3>2, <3>3
  <2> QED
    BY <2>1 DEF Ranked
<1>12. Ranked(bt, c + 1) = {k}
  <2>1. ASSUME NEW m PROVE (m \in bt /\ Cardinality(Below(bt, m)) = c + 1) <=> m = k
    <3>1. CASE m \in at
      <4>1. Cardinality(Below(bt, m)) # c + 1
        BY <1>8, <1>10, <3>1
      <4> QED
        BY <1>3, <3>1, <4>1
    <3>2. CASE m = k
      BY <1>6, <1>7, <1>9, <3>2
    <3>3. CASE m \notin at /\ m # k
      BY <1>7, <3>3
    <3> QED
      BY <3>1, <3>2, <3>3
  <2> QED
    BY <2>1 DEF Ranked
<1> QED
  BY <1>5, <1>6, <1>11, <1>12

LEMMA OrderedMore ==
  ASSUME NEW n \in Nat, NEW at \in SUBSET (1 .. n), NEW k \in Nat, n < k
  PROVE  Ordered(at \cup {k}) = Append(Ordered(at), k)
<1>1. PICK bt : bt = at \cup {k}
  OBVIOUS
<1>2. PICK c \in Nat : c = Cardinality(at)
  BY <1>1, RankedMore DEF Gains
<1>3. /\ Cardinality(bt) = c + 1
      /\ \A j \in 1 .. c : Ranked(bt, j) = Ranked(at, j)
      /\ Ranked(bt, c + 1) = {k}
  BY <1>1, <1>2, RankedMore DEF Gains
<1>4. PICK s : s = Ordered(at) /\ s = [j \in 1 .. c |-> Min(Ranked(at, j))]
  BY <1>2, OrderedIs
<1>5. PICK t : t = Ordered(bt) /\ t = [j \in 1 .. c + 1 |-> Min(Ranked(bt, j))]
  BY <1>3, OrderedIs
<1>6. \A j \in 1 .. c : t[j] = s[j]
  BY <1>3, <1>4, <1>5
<1>7. t[c + 1] = k
  BY <1>3, <1>5, MinOfOne
<1> DEFINE P == {s[j] : j \in 1 .. c} \cup {k}
<1>8. s \in Seq(P) /\ Len(s) = c
  <2>1. s \in [1 .. c -> P]
    BY <1>4
  <2> QED
    BY <2>1
<1>9. t \in Seq(P) /\ Len(t) = c + 1
  <2>1. t \in [1 .. c + 1 -> P]
    BY <1>5, <1>6, <1>7
  <2> QED
    BY <2>1
<1>10. k \in P
  OBVIOUS
<1> HIDE DEF P
<1>11. t = Append(s, k)
  BY <1>6, <1>7, <1>8, <1>9, <1>10
<1> QED
  BY <1>1, <1>4, <1>5, <1>11

LEMMA OrderedType ==
  ASSUME NEW n \in Nat, NEW at \in SUBSET (1 .. n)
  PROVE  Ordered(at) \in Seq(at)
<1> DEFINE S == {m \in Nat : \A bt \in SUBSET (1 .. m) : Ordered(bt) \in Seq(bt)}
<1>1. 0 \in S
  <2>1. \A bt \in SUBSET (1 .. 0) : bt = {}
    OBVIOUS
  <2>2. <<>> \in Seq({})
    OBVIOUS
  <2> QED
    BY <2>1, <2>2, OrderedEmpty
<1>2. ASSUME NEW m \in S PROVE m + 1 \in S
  <2>1. ASSUME NEW bt \in SUBSET (1 .. m + 1) PROVE Ordered(bt) \in Seq(bt)
    <3>1. CASE m + 1 \notin bt
      BY <3>1
    <3>2. CASE m + 1 \in bt
      <4>1. PICK ct \in SUBSET (1 .. m) : ct = bt \ {m + 1} /\ bt = ct \cup {m + 1}
        <5>1. bt \ {m + 1} \in SUBSET (1 .. m) /\ bt = (bt \ {m + 1}) \cup {m + 1}
          BY <3>2
        <5> QED
          BY <5>1
      <4>2. Ordered(bt) = Append(Ordered(ct), m + 1)
        <5>1. m \in Nat /\ m + 1 \in Nat /\ m < m + 1
          OBVIOUS
        <5> QED
          BY <4>1, <5>1, OrderedMore
      <4>3. Ordered(ct) \in Seq(ct)
        BY <4>1
      <4>4. Seq(ct) \subseteq Seq(bt)
        BY <4>1
      <4>5. PICK t \in Seq(bt) : t = Ordered(ct)
        BY <4>3, <4>4
      <4>6. Append(t, m + 1) \in Seq(bt)
        BY <3>2
      <4> QED
        BY <4>2, <4>5, <4>6
    <3> QED
      BY <3>1, <3>2
  <2> QED
    BY <2>1
<1>3. S \in SUBSET Nat
  OBVIOUS
<1> HIDE DEF S
<1>4. S = Nat
  BY <1>1, <1>2, <1>3, SetInduction
<1> QED
  BY <1>4 DEF S

-----------------------------------------------------------------------------
(* A blank before each word *)

\* f has the first words of ws with a blank before each, for each number up to m.
Spacing(f, ws, m) ==
  f = [k \in 0 .. m |-> IF k = 0 THEN <<>> ELSE Joined(f[k - 1], ws[k])]

LEMMA SpacingExists ==
  ASSUME NEW ws PROVE \A m \in Nat : \E f : Spacing(f, ws, m)
<1> DEFINE S == {m \in Nat : \E f : Spacing(f, ws, m)}
<1>1. 0 \in S
  <2> DEFINE f == [n \in 0 .. 0 |-> <<>>]
  <2>1. Spacing(f, ws, 0)
    BY DEF Spacing
  <2> QED
    BY <2>1
<1>2. ASSUME NEW m \in S PROVE m + 1 \in S
  <2>1. PICK g : Spacing(g, ws, m)
    OBVIOUS
  <2>2. m \in Nat
    OBVIOUS
  <2>3. PICK e : e = Joined(g[m], ws[m + 1])
    OBVIOUS
  <2> DEFINE f == [n \in 0 .. m + 1 |-> IF n <= m THEN g[n] ELSE e]
  <2>4. ASSUME NEW n \in 0 .. m + 1
        PROVE  f[n] = IF n = 0 THEN <<>> ELSE Joined(f[n - 1], ws[n])
    <3>1. CASE n = 0
      BY <2>1, <3>1 DEF Spacing
    <3>2. CASE n \in 1 .. m
      <4>1. f[n - 1] = g[n - 1] /\ f[n] = g[n]
        BY <3>2
      <4>2. n \in 0 .. m /\ n # 0
        BY <3>2
      <4> HIDE DEF f
      <4>3. g[n] = Joined(g[n - 1], ws[n])
        BY <2>1, <4>2 DEF Spacing
      <4> QED
        BY <4>1, <4>2, <4>3
    <3>3. CASE n = m + 1
      <4>1. f[n] = e /\ f[n - 1] = g[m]
        BY <3>3
      <4>2. n # 0
        BY <3>3
      <4> HIDE DEF f
      <4> QED
        BY <2>3, <3>3, <4>1, <4>2
    <3> QED
      BY <3>1, <3>2, <3>3
  <2>5. f = [n \in 0 .. m + 1 |-> f[n]]
    OBVIOUS
  <2> HIDE DEF f
  <2>6. \E h : Spacing(h, ws, m + 1)
    BY <2>4, <2>5 DEF Spacing
  <2> QED
    BY <2>2, <2>6
<1>3. S \in SUBSET Nat
  OBVIOUS
<1> HIDE DEF S
<1>4. S = Nat
  BY <1>1, <1>2, <1>3, SetInduction
<1> QED
  BY <1>4 DEF S

LEMMA SpacedIs ==
  ASSUME NEW ws, Len(ws) \in Nat
  PROVE  \E f : Spacing(f, ws, Len(ws)) /\ Spaced(ws) = f[Len(ws)]
<1> DEFINE f == CHOOSE f : Spacing(f, ws, Len(ws))
<1>1. Spaced(ws) = f[Len(ws)]
  BY DEF Spaced, Spacing
<1> HIDE DEF f
<1>2. Spacing(f, ws, Len(ws))
  BY SpacingExists DEF f
<1> QED
  BY <1>1, <1>2

\* The first words with their blanks do not depend on what follows.
Agree(s, t, m) == \A n \in 1 .. m : s[n] = t[n]

LEMMA SpacingSame ==
  ASSUME NEW s, NEW t, NEW m \in Nat, Agree(s, t, m),
         NEW k \in Nat, m <= k, NEW f, Spacing(f, s, m), NEW g, Spacing(g, t, k)
  PROVE  f[m] = g[m]
<1> DEFINE S == {n \in Nat : n <= m => f[n] = g[n]}
<1>1. 0 \in S
  BY DEF Spacing
<1>2. ASSUME NEW n \in S PROVE n + 1 \in S
  <2>1. SUFFICES ASSUME n + 1 <= m PROVE f[n + 1] = g[n + 1]
    OBVIOUS
  <2>2. n \in Nat /\ f[n] = g[n] /\ s[n + 1] = t[n + 1]
    BY <2>1 DEF Agree
  <2>3. n + 1 \in 0 .. m /\ n + 1 \in 0 .. k /\ n + 1 # 0 /\ n + 1 - 1 = n
    BY <2>1, <2>2
  <2>4. f[n + 1] = Joined(f[n], s[n + 1])
    BY <2>3 DEF Spacing
  <2>5. g[n + 1] = Joined(g[n], t[n + 1])
    BY <2>3 DEF Spacing
  <2> QED
    BY <2>2, <2>4, <2>5
<1>3. S \in SUBSET Nat
  OBVIOUS
<1> HIDE DEF S
<1>4. S = Nat
  BY <1>1, <1>2, <1>3, SetInduction
<1> QED
  BY <1>4 DEF S

LEMMA SpacedEmpty == Spaced(<<>>) = <<>>
<1>1. PICK f : Spacing(f, <<>>, 0) /\ Spaced(<<>>) = f[0]
  BY SpacedIs
<1> QED
  BY <1>1 DEF Spacing

LEMMA SpacedAppend ==
  ASSUME NEW P, NEW s \in Seq(P), NEW b \in P
  PROVE  Spaced(Append(s, b)) = Joined(Spaced(s), b)
<1>1. PICK k \in Nat : k = Len(s)
  OBVIOUS
<1> DEFINE t == Append(s, b)
<1>2. Len(t) = k + 1 /\ t[k + 1] = b /\ \A n \in 1 .. k : s[n] = t[n]
  BY <1>1
<1> HIDE DEF t
<1>3. PICK f : Spacing(f, s, k) /\ Spaced(s) = f[k]
  BY <1>1, SpacedIs
<1>4. PICK g : Spacing(g, t, k + 1) /\ Spaced(t) = g[k + 1]
  BY <1>2, SpacedIs
<1>5. k + 1 \in Nat /\ k <= k + 1 /\ k + 1 \in 0 .. k + 1 /\ k + 1 # 0 /\ k + 1 - 1 = k
  OBVIOUS
<1>6. f[k] = g[k]
  <2>1. PICK j \in Nat : j = k + 1 /\ k <= j /\ Spacing(g, t, j)
    BY <1>4, <1>5
  <2>2. Agree(s, t, k)
    BY <1>2 DEF Agree
  <2> QED
    BY <1>3, <2>1, <2>2, SpacingSame
<1>7. g[k + 1] = Joined(g[k], t[k + 1])
  BY <1>4, <1>5 DEF Spacing
<1> QED
  BY <1>2, <1>3, <1>4, <1>6, <1>7 DEF t

-----------------------------------------------------------------------------
(* Texts and words *)

LEMMA CharTypes ==
  /\ " " \in Chars \ {"LF"} /\ ":" \in Chars \ {"LF"} /\ "CR" \in Chars \ {"LF"}
  /\ "LF" \in Chars /\ <<" ">> \in Texts /\ <<>> \in Texts
  /\ Blanks \subseteq Chars \ {"LF"}
  BY DEF Chars, Texts, Blanks

LEMMA TextConcat ==
  ASSUME NEW s \in Texts, NEW t \in Texts
  PROVE  /\ s \o t \in Texts /\ Len(s) \in Nat /\ Len(t) \in Nat
         /\ Len(s \o t) = Len(s) + Len(t)
         /\ \A n \in 1 .. Len(s) : (s \o t)[n] = s[n]
         /\ \A n \in 1 .. Len(t) : (s \o t)[Len(s) + n] = t[n]
<1>1. PICK P : P = Chars \ {"LF"}
  OBVIOUS
<1>2. Texts = Seq(P)
  BY <1>1 DEF Texts
<1> QED
  BY <1>2, Concat

LEMMA SpacedType ==
  \A ws \in Seq(Texts) : Spaced(ws) \in Texts
<1>1. PICK P : P = Texts
  OBVIOUS
<1> DEFINE T == {ws \in Seq(P) : Spaced(ws) \in P}
<1>2. <<>> \in T
  <2>1. <<>> \in Seq(P)
    OBVIOUS
  <2> QED
    BY <1>1, <2>1, SpacedEmpty, CharTypes
<1>3. ASSUME NEW ws \in T, NEW w \in P PROVE Append(ws, w) \in T
  <2>1. Spaced(Append(ws, w)) = Joined(Spaced(ws), w)
    BY SpacedAppend
  <2>2. (Spaced(ws) \o <<" ">>) \o w \in P
    BY <1>1, TextConcat, CharTypes
  <2>3. Append(ws, w) \in Seq(P)
    OBVIOUS
  <2> QED
    BY <2>1, <2>2, <2>3 DEF Joined
<1>4. T \in SUBSET Seq(P)
  OBVIOUS
<1> HIDE DEF T
<1>5. T = Seq(P)
  BY <1>2, <1>3, <1>4, SequenceInduction
<1> QED
  BY <1>1, <1>5 DEF T

-----------------------------------------------------------------------------
(* What a prefix and words make *)

LEMMA MinIs ==
  ASSUME NEW S \in SUBSET Nat, NEW c \in S, \A x \in S : c <= x
  PROVE  Min(S) = c
<1>1. \A x \in S : (\A y \in S : x <= y) => x = c
  OBVIOUS
<1> QED
  BY <1>1 DEF Min

LEMMA WordIs ==
  ASSUME NEW w \in Words
  PROVE  /\ w \in Texts /\ w # <<>> /\ Len(w) \in Nat \ {0}
         /\ \A n \in 1 .. Len(w) : w[n] \notin Blanks
         /\ Head(w) = w[1] /\ Tail(w) \in Texts
         /\ StartsTrailing(w) <=> w[1] = ":"
<1>1. PICK P : P = Chars \ {"LF"}
  OBVIOUS
<1>2. w \in Seq(P) /\ w # <<>> /\ ToSet(w) \cap Blanks = {}
  BY <1>1 DEF Words, Texts
<1>3. Len(w) \in Nat \ {0} /\ DOMAIN w = 1 .. Len(w)
  BY <1>2
<1>4. \A n \in 1 .. Len(w) : w[n] \notin Blanks
  BY <1>2, <1>3 DEF ToSet
<1>5. Tail(w) \in Seq(P) /\ Head(w) = w[1]
  BY <1>2
<1> QED
  BY <1>1, <1>2, <1>3, <1>4, <1>5 DEF Texts, StartsTrailing

LEMMA ColonsMore ==
  ASSUME NEW ws \in Seq(Words), NEW w \in Words
  PROVE  /\ w[1] # ":" \/ ws = <<>> => Colons(Append(ws, w)) = Colons(ws)
         /\ w[1] = ":" /\ ws # <<>> => Colons(Append(ws, w)) = Colons(ws) \cup {Len(ws) + 1}
         /\ Colons(ws) \subseteq 2 .. Len(ws)
<1>1. PICK t : t = Append(ws, w)
  OBVIOUS
<1>2. PICK n \in Nat : n = Len(ws)
  OBVIOUS
<1>3. Len(t) = n + 1 /\ t[n + 1] = w /\ \A k \in 1 .. n : t[k] = ws[k]
  BY <1>1, <1>2
<1>4. n = 0 <=> ws = <<>>
  BY <1>2
<1>5. ASSUME NEW k
      PROVE  k \in Colons(t) <=> (k \in Colons(ws) \/ (k = n + 1 /\ n # 0 /\ w[1] = ":"))
  <2>1. CASE k \in 1 .. n
    BY <1>2, <1>3, <2>1 DEF Colons
  <2>2. CASE k = n + 1
    BY <1>2, <1>3, <2>2 DEF Colons
  <2>3. CASE k \notin 1 .. n + 1
    BY <1>2, <1>3, <2>3 DEF Colons
  <2> QED
    BY <2>1, <2>2, <2>3
<1>6. Colons(ws) \subseteq 2 .. Len(ws)
  BY DEF Colons
<1> QED
  BY <1>1, <1>2, <1>4, <1>5, <1>6

LEMMA JoinedConcat ==
  ASSUME NEW a \in Texts, NEW b \in Texts, NEW w \in Texts
  PROVE  a \o Joined(b, w) = Joined(a \o b, w) /\ Joined(a, w) \in Texts
<1>1. PICK P : P = Chars \ {"LF"}
  OBVIOUS
<1>2. Texts = Seq(P)
  BY <1>1 DEF Texts
<1>3. PICK x \in Seq(P) : x = <<" ">>
  BY <1>2, CharTypes
<1>4. a \in Seq(P) /\ b \in Seq(P) /\ w \in Seq(P)
  BY <1>2
<1>5. (a \o b) \o x = a \o (b \o x)
  BY <1>4, Associative
<1>6. (a \o (b \o x)) \o w = a \o ((b \o x) \o w)
  <2>1. PICK y \in Seq(P) : y = b \o x
    BY <1>4, Concat
  <2>2. (a \o y) \o w = a \o (y \o w)
    BY <1>4, Associative
  <2> QED
    BY <2>1, <2>2
<1>7. (a \o x) \o w \in Seq(P)
  <2>1. a \o x \in Seq(P)
    BY <1>4, Concat
  <2> QED
    BY <1>4, <2>1, Concat
<1> QED
  BY <1>2, <1>3, <1>5, <1>6, <1>7 DEF Joined

LEMMA SubSeqMore ==
  ASSUME NEW P, NEW s \in Seq(P), NEW x \in P, NEW n \in Nat, n = Len(s),
         NEW i \in 1 .. n + 1
  PROVE  SubSeq(Append(s, x), i, n + 1) = Append(SubSeq(s, i, n), x)
<1>1. SubSeq(s, i, n) \in Seq(P) /\ Len(SubSeq(s, i, n)) = n + 1 - i
  OBVIOUS
<1>2. SubSeq(Append(s, x), i, n + 1) \in Seq(P)
      /\ Len(SubSeq(Append(s, x), i, n + 1)) = n + 1 - i + 1
  OBVIOUS
<1> QED
  BY <1>1, <1>2

Parts(p, c, a, t, b) ==
  [prefix |-> p, cmd |-> c, args |-> a, trailing |-> t, trailing_sign |-> b]

SetCmd(m, v) == [m EXCEPT !.cmd = v]
AddArg(m, w) == [m EXCEPT !.args = Append(@, w)]
SetTrailing(m, v) == [m EXCEPT !.trailing_sign = TRUE, !.trailing = v]
AddTrailing(m, w) == [m EXCEPT !.trailing = Joined(@, w)]

\* Names for the truth values as parts of a record.
Yes == TRUE
No == FALSE

LEMMA WithCmd ==
  ASSUME NEW p, NEW c, NEW a, NEW t, NEW b, NEW m, m = Parts(p, c, a, t, b), NEW v
  PROVE  SetCmd(m, v) = Parts(p, v, a, t, b)
  BY DEF Parts, SetCmd

LEMMA WithArgs ==
  ASSUME NEW p, NEW c, NEW a, NEW t, NEW b, NEW m, m = Parts(p, c, a, t, b), NEW w
  PROVE  AddArg(m, w) = Parts(p, c, Append(a, w), t, b)
<1>1. m.args = a
  BY DEF Parts
<1>2. \A x : [m EXCEPT !.args = x] = Parts(p, c, x, t, b)
  BY DEF Parts
<1> QED
  BY <1>1, <1>2, Zenon DEF AddArg

LEMMA WithMore ==
  ASSUME NEW p, NEW c, NEW a, NEW t, NEW b, NEW m, m = Parts(p, c, a, t, b), NEW w
  PROVE  AddTrailing(m, w) = Parts(p, c, a, Joined(t, w), b)
<1>1. m.trailing = t
  BY DEF Parts
<1>2. \A x : [m EXCEPT !.trailing = x] = Parts(p, c, a, x, b)
  BY DEF Parts
<1> QED
  BY <1>1, <1>2, Zenon DEF AddTrailing

LEMMA WithTrailing ==
  ASSUME NEW p, NEW c, NEW a, NEW t, NEW b, NEW m, m = Parts(p, c, a, t, b), NEW v
  PROVE  SetTrailing(m, v) = Parts(p, c, a, v, Yes)
<1>1. PICK k : k = [m EXCEPT !.trailing_sign = Yes]
  OBVIOUS
<1>2. k = Parts(p, c, a, t, Yes)
  BY <1>1 DEF Parts
<1>3. [k EXCEPT !.trailing = v] = Parts(p, c, a, v, Yes)
  BY <1>2 DEF Parts
<1>4. SetTrailing(m, v) = [m EXCEPT !.trailing_sign = Yes, !.trailing = v]
  BY Zenon DEF SetTrailing, Yes
<1>5. [m EXCEPT !.trailing_sign = Yes, !.trailing = v] = [k EXCEPT !.trailing = v]
  BY <1>1 DEF Parts
<1> QED
  BY <1>3, <1>4, <1>5, Zenon

LEMMA MadePlain ==
  ASSUME NEW p, NEW ws, Colons(ws) = {}, ws # <<>>, NEW n \in Nat, n = Len(ws)
  PROVE  Made(p, ws) = Parts(p, ws[1], SubSeq(ws, 2, n), <<>>, No)
<1>1. PICK e : e = Len(ws) + 1
  OBVIOUS
<1>2. e - 1 = n
  BY <1>1
<1>3. (IF Colons(ws) = {} THEN Len(ws) + 1 ELSE Min(Colons(ws))) = e
  BY <1>1
<1>4. (IF ws = <<>> THEN <<>> ELSE ws[1]) = ws[1]
  OBVIOUS
<1>5. (IF Colons(ws) = {} THEN <<>> ELSE Tail(ws[e]) \o Spaced(From(ws, e + 1))) = <<>>
  BY Zenon
<1>6. (Colons(ws) # {}) = FALSE
  OBVIOUS
<1>7. Made(p, ws) = Parts(p, ws[1], SubSeq(ws, 2, e - 1), <<>>, No)
  BY <1>3, <1>4, <1>5, <1>6, Zenon DEF Made, Parts, Yes, No
<1> QED
  BY <1>2, <1>7, Zenon

LEMMA MadeTrailing ==
  ASSUME NEW p, NEW ws, Colons(ws) # {}, ws # <<>>, NEW e, e = Min(Colons(ws))
  PROVE  Made(p, ws) = Parts(p, ws[1], SubSeq(ws, 2, e - 1),
                             Tail(ws[e]) \o Spaced(From(ws, e + 1)), Yes)
<1>1. (IF Colons(ws) = {} THEN Len(ws) + 1 ELSE Min(Colons(ws))) = e
  OBVIOUS
<1>2. (IF ws = <<>> THEN <<>> ELSE ws[1]) = ws[1]
  OBVIOUS
<1>3. (IF Colons(ws) = {} THEN <<>> ELSE Tail(ws[e]) \o Spaced(From(ws, e + 1)))
        = Tail(ws[e]) \o Spaced(From(ws, e + 1))
  BY Zenon
<1>4. (Colons(ws) # {}) = TRUE
  OBVIOUS
<1> QED
  BY <1>1, <1>2, <1>3, <1>4, Zenon DEF Made, Parts, Yes, No

LEMMA MadeOfNothing == \A p : Made(p, <<>>) = Parts(p, <<>>, <<>>, <<>>, No)
<1> TAKE p
<1>1. PICK e : e = Len(<<>>) + 1
  OBVIOUS
<1>2. SubSeq(<<>>, 2, e - 1) = <<>>
  BY <1>1
<1>3. Colons(<<>>) = {}
  BY DEF Colons
<1>4. (Colons(<<>>) # {}) = FALSE
  BY <1>3
<1> QED
  BY <1>1, <1>2, <1>3, <1>4, Zenon DEF Made, Parts, Yes, No

LEMMA MadeOfOne ==
  ASSUME NEW p, NEW w \in Words
  PROVE  Made(p, Append(<<>>, w)) = SetCmd(Made(p, <<>>), w)
<1>1. <<>> \in Seq(Words) /\ Colons(<<>>) = {}
  BY DEF Colons
<1>2. PICK t : t = Append(<<>>, w)
  OBVIOUS
<1>3. Colons(t) = {}
  BY <1>1, <1>2, ColonsMore
<1>4. t # <<>> /\ Len(t) = 1 /\ t[1] = w /\ SubSeq(t, 2, 1) = <<>> /\ 1 \in Nat
  BY <1>2
<1>5. Made(p, t) = Parts(p, w, <<>>, <<>>, No)
  BY <1>3, <1>4, MadePlain
<1>6. PICK m, z : z = <<>> /\ m = Made(p, <<>>) /\ m = Parts(p, z, z, z, No)
  BY MadeOfNothing, Zenon
<1>7. SetCmd(m, w) = Parts(p, w, z, z, No)
  BY <1>6, WithCmd
<1> QED
  BY <1>2, <1>5, <1>6, <1>7, Zenon

LEMMA MadeWithArgument ==
  ASSUME NEW p, NEW ws \in Seq(Words), ws # <<>>, NEW w \in Words, w[1] # ":",
         Colons(ws) = {}
  PROVE  Made(p, Append(ws, w)) = AddArg(Made(p, ws), w)
<1>1. PICK t : t = Append(ws, w)
  OBVIOUS
<1>2. PICK n \in Nat \ {0} : n = Len(ws)
  OBVIOUS
<1>3. Colons(t) = {}
  BY <1>1, ColonsMore
<1>4. Len(t) = n + 1 /\ n + 1 \in Nat /\ t[1] = ws[1] /\ t # <<>>
  BY <1>1, <1>2
<1>5. SubSeq(t, 2, n + 1) = Append(SubSeq(ws, 2, n), w)
  BY <1>1, <1>2
<1>6. n + 1 - 1 = n /\ n + 1 + 1 - 1 = n + 1
  OBVIOUS
<1>7. Made(p, ws) = Parts(p, ws[1], SubSeq(ws, 2, n), <<>>, No)
  BY <1>2, MadePlain
<1>8. Made(p, t) = Parts(p, ws[1], SubSeq(t, 2, n + 1), <<>>, No)
  BY <1>3, <1>4, MadePlain
<1>9. PICK m, c, a, z :
        m = Made(p, ws) /\ c = ws[1] /\ a = SubSeq(ws, 2, n) /\ z = <<>>
  OBVIOUS
<1>10. m = Parts(p, c, a, z, No)
  BY <1>7, <1>9, Zenon
<1>11. AddArg(m, w) = Parts(p, c, Append(a, w), z, No)
  BY <1>10, WithArgs
<1>12. Made(p, t) = Parts(p, c, Append(a, w), z, No)
  BY <1>1, <1>5, <1>8, <1>9, Zenon
<1> QED
  BY <1>1, <1>9, <1>11, <1>12, Zenon

LEMMA MadeWithColon ==
  ASSUME NEW p, NEW ws \in Seq(Words), ws # <<>>, NEW w \in Words, w[1] = ":",
         Colons(ws) = {}
  PROVE  Made(p, Append(ws, w)) = SetTrailing(Made(p, ws), Tail(w))
<1>1. PICK t : t = Append(ws, w)
  OBVIOUS
<1>2. PICK n \in Nat \ {0} : n = Len(ws)
  OBVIOUS
<1>3. Colons(t) = {n + 1}
  BY <1>1, <1>2, ColonsMore
<1>4. Min(Colons(t)) = n + 1
  BY <1>3, MinOfOne
<1>5. Len(t) = n + 1 /\ t[1] = ws[1] /\ t # <<>> /\ t[n + 1] = w
  BY <1>1, <1>2
<1>6. SubSeq(t, 2, n) = SubSeq(ws, 2, n)
  BY <1>1, <1>2
<1>7. PICK e : e = n + 1
  OBVIOUS
<1>8. Spaced(From(t, e + 1)) = <<>>
  <2>1. From(t, e + 1) = <<>>
    BY <1>1, <1>5, <1>7 DEF From
  <2> QED
    BY <2>1, SpacedEmpty
<1>9. Tail(t[e]) \o <<>> = Tail(w)
  BY <1>5, <1>7, WordIs DEF Texts
<1>10. Made(p, ws) = Parts(p, ws[1], SubSeq(ws, 2, n), <<>>, No)
  BY <1>2, MadePlain
<1>11. Made(p, t) = Parts(p, ws[1], SubSeq(t, 2, n), Tail(w), Yes)
  <2>1. Colons(t) # {} /\ e = Min(Colons(t)) /\ e - 1 = n
    BY <1>3, <1>4, <1>7
  <2>2. Made(p, t) = Parts(p, t[1], SubSeq(t, 2, e - 1),
                           Tail(t[e]) \o Spaced(From(t, e + 1)), Yes)
    BY <1>5, <2>1, MadeTrailing, Zenon
  <2> QED
    BY <1>5, <1>8, <1>9, <2>1, <2>2, Zenon
<1>12. PICK m, c, a, z :
        m = Made(p, ws) /\ c = ws[1] /\ a = SubSeq(ws, 2, n) /\ z = <<>>
  OBVIOUS
<1>13. m = Parts(p, c, a, z, No)
  BY <1>10, <1>12, Zenon
<1>14. \A x : SetTrailing(m, x) = Parts(p, c, a, x, Yes)
  BY <1>13, WithTrailing
<1>15. Made(p, t) = Parts(p, c, a, Tail(w), Yes)
  BY <1>6, <1>11, <1>12, Zenon
<1> QED
  BY <1>1, <1>12, <1>14, <1>15, Zenon

LEMMA MadeWithMore ==
  ASSUME NEW p, NEW ws \in Seq(Words), NEW w \in Words, Colons(ws) # {}
  PROVE  Made(p, Append(ws, w)) = AddTrailing(Made(p, ws), w)
<1>1. PICK t : t = Append(ws, w)
  OBVIOUS
<1>2. PICK n \in Nat : n = Len(ws)
  OBVIOUS
<1>3. Colons(ws) \subseteq 2 .. n /\ n \in Nat \ {0} /\ ws # <<>>
  BY <1>2, ColonsMore
<1>4. PICK c \in Colons(ws) : \A x \in Colons(ws) : ~ (x < c)
  <2>1. Colons(ws) \in SUBSET Nat
    BY <1>3
  <2> QED
    BY <2>1, LeastNatural
<1>5. c \in 2 .. n
  BY <1>3
<1>6. Min(Colons(ws)) = c
  <2>1. Colons(ws) \in SUBSET Nat /\ \A x \in Colons(ws) : c <= x
    BY <1>3, <1>4, <1>5
  <2> QED
    BY <2>1, MinIs
<1>7. Min(Colons(t)) = c /\ Colons(t) # {}
  <2>1. Colons(t) = Colons(ws) \/ Colons(t) = Colons(ws) \cup {n + 1}
    BY <1>1, <1>2, ColonsMore
  <2>2. Colons(t) \in SUBSET Nat /\ c \in Colons(t) /\ \A x \in Colons(t) : c <= x
    BY <1>3, <1>4, <1>5, <2>1
  <2> QED
    BY <2>2, MinIs
<1>8. Len(t) = n + 1 /\ t[1] = ws[1] /\ t # <<>> /\ t[c] = ws[c]
  BY <1>1, <1>2, <1>3, <1>5
<1>9. SubSeq(t, 2, c - 1) = SubSeq(ws, 2, c - 1)
  BY <1>1, <1>2, <1>5
<1>10. PICK P : P = Words
  OBVIOUS
<1>11. PICK rest \in Seq(P) : rest = From(ws, c + 1) /\ rest = SubSeq(ws, c + 1, n)
  <2>1. SubSeq(ws, c + 1, n) \in Seq(P)
    BY <1>2, <1>5, <1>10
  <2> QED
    BY <1>2, <2>1 DEF From
<1>12. From(t, c + 1) = Append(rest, w)
  <2>1. SubSeq(t, c + 1, n + 1) = Append(SubSeq(ws, c + 1, n), w)
    <3>1. c + 1 \in 1 .. n + 1
      BY <1>2, <1>5
    <3>2. ws \in Seq(P) /\ w \in P
      BY <1>10
    <3> QED
      BY <1>1, <1>2, <3>1, <3>2, SubSeqMore, Zenon
  <2> QED
    BY <1>8, <1>11, <2>1 DEF From
<1>13. Spaced(From(t, c + 1)) = Joined(Spaced(rest), w)
  BY <1>10, <1>12, SpacedAppend
<1>14. PICK first : first = Tail(ws[c])
  OBVIOUS
<1>15. first \in Texts
  BY <1>2, <1>5, <1>14, WordIs
<1>16. PICK middle : middle = Spaced(rest)
  OBVIOUS
<1>17. middle \in Texts
  <2>1. rest \in Seq(Texts)
    BY <1>10 DEF Words
  <2> QED
    BY <1>16, <2>1, SpacedType
<1>18. first \o Joined(middle, w) = Joined(first \o middle, w)
  BY <1>15, <1>17, WordIs, JoinedConcat
<1>19. Made(p, ws) = Parts(p, ws[1], SubSeq(ws, 2, c - 1), first \o middle, Yes)
  <2>1. Made(p, ws) = Parts(p, ws[1], SubSeq(ws, 2, c - 1),
                            Tail(ws[c]) \o Spaced(From(ws, c + 1)), Yes)
    BY <1>3, <1>6, MadeTrailing
  <2> QED
    BY <1>11, <1>14, <1>16, <2>1
<1>20. Made(p, t) = Parts(p, ws[1], SubSeq(t, 2, c - 1), first \o Joined(middle, w), Yes)
  <2>1. Made(p, t) = Parts(p, t[1], SubSeq(t, 2, c - 1),
                           Tail(t[c]) \o Spaced(From(t, c + 1)), Yes)
    BY <1>7, <1>8, MadeTrailing
  <2> QED
    BY <1>8, <1>13, <1>14, <1>16, <2>1
<1>21. PICK m, d, a, y :
         m = Made(p, ws) /\ d = ws[1] /\ a = SubSeq(ws, 2, c - 1) /\ y = first \o middle
  OBVIOUS
<1>22. m = Parts(p, d, a, y, Yes)
  BY <1>19, <1>21, Zenon
<1>23. AddTrailing(m, w) = Parts(p, d, a, Joined(y, w), Yes)
  BY <1>22, WithMore
<1>24. Made(p, t) = Parts(p, d, a, Joined(y, w), Yes)
  BY <1>9, <1>18, <1>20, <1>21, Zenon
<1> QED
  BY <1>1, <1>21, <1>23, <1>24, Zenon

-----------------------------------------------------------------------------
(* The words of a text that grows *)

Starts(s) == {n \in Dark(s) : n - 1 \notin Dark(s)}
Stops(s) == {n \in Dark(s) : n + 1 \notin Dark(s)}

Piece(s, i, j) == SubSeq(s, i, j)

WordsAs(s, a, b) == [k \in DOMAIN a |-> Piece(s, a[k], b[k])]

LEMMA WordsOfIs ==
  ASSUME NEW s PROVE WordsOf(s) = WordsAs(s, Ordered(Starts(s)), Ordered(Stops(s)))
  BY DEF WordsOf, WordsAs, Piece, Starts, Stops

\* As many words begin as end.
Even(s) == Len(Ordered(Starts(s))) = Len(Ordered(Stops(s)))

BlankText(s) == \A n \in 1 .. Len(s) : s[n] \in Blanks

\* What comes next in it is a new word.
Apart(s) == s = <<>> \/ s[Len(s)] \in Blanks

LEMMA TextIs ==
  ASSUME NEW s \in Texts
  PROVE  Len(s) \in Nat /\ DOMAIN s = 1 .. Len(s) /\ Dark(s) \in SUBSET (1 .. Len(s))
         /\ (s = <<>> <=> Len(s) = 0)
         /\ (\A n \in 1 .. Len(s) : n \in Dark(s) <=> s[n] \notin Blanks)
<1>1. s \in Seq(Chars \ {"LF"})
  BY DEF Texts
<1>2. Len(s) \in Nat /\ DOMAIN s = 1 .. Len(s) /\ (s = <<>> <=> Len(s) = 0)
  BY <1>1
<1> QED
  BY <1>2 DEF Dark, Blanks

LEMMA SameSubSeq ==
  ASSUME NEW P, NEW s \in Seq(P), NEW u \in Seq(P), NEW n \in Nat, n = Len(s), n <= Len(u),
         \A k \in 1 .. n : u[k] = s[k], NEW i \in 1 .. n, NEW j \in 1 .. n
  PROVE  SubSeq(u, i, j) = SubSeq(s, i, j)
<1>1. SubSeq(s, i, j) \in Seq(P) /\ SubSeq(u, i, j) \in Seq(P)
  OBVIOUS
<1>2. /\ Len(SubSeq(u, i, j)) = Len(SubSeq(s, i, j))
      /\ \A k \in 1 .. Len(SubSeq(s, i, j)) : SubSeq(u, i, j)[k] = SubSeq(s, i, j)[k]
  OBVIOUS
<1> QED
  BY <1>1, <1>2, SameSequence

LEMMA WordsOfBlank ==
  ASSUME NEW s \in Texts, NEW t \in Texts, BlankText(t), Even(s)
  PROVE  Even(s \o t) /\ WordsOf(s \o t) = WordsOf(s)
<1>1. PICK u : u = s \o t
  OBVIOUS
<1>2. PICK n \in Nat, l \in Nat : n = Len(s) /\ l = Len(t)
  BY TextIs
<1>3. /\ u \in Texts /\ Len(u) = n + l
      /\ \A k \in 1 .. n : u[k] = s[k]
      /\ \A k \in 1 .. l : u[n + k] = t[k]
  BY <1>1, <1>2, TextConcat
<1>4. ASSUME NEW k PROVE k \in Dark(u) <=> k \in Dark(s)
  <2>1. CASE k \in 1 .. n
    BY <1>2, <1>3, <2>1, TextIs
  <2>2. CASE k \in n + 1 .. n + l
    <3>1. k - n \in 1 .. l /\ n + (k - n) = k
      BY <2>2
    <3>2. u[k] \in Blanks
      BY <1>2, <1>3, <3>1 DEF BlankText
    <3>3. k \in 1 .. Len(u) /\ k \notin 1 .. Len(s)
      BY <1>2, <1>3, <2>2
    <3> QED
      BY <1>3, <3>2, <3>3, TextIs
  <2>3. CASE k \notin 1 .. n + l
    <3>1. k \notin 1 .. Len(u) /\ k \notin 1 .. Len(s)
      BY <1>2, <1>3, <2>3
    <3> QED
      BY <1>3, <3>1, TextIs
  <2> QED
    BY <1>2, <2>1, <2>2, <2>3
<1>5. Dark(u) = Dark(s)
  BY <1>4
<1>6. PICK a, b : a = Ordered(Starts(s)) /\ b = Ordered(Stops(s))
  OBVIOUS
<1>7. a = Ordered(Starts(u)) /\ b = Ordered(Stops(u))
  BY <1>5, <1>6 DEF Starts, Stops
<1>8. a \in Seq(1 .. n) /\ b \in Seq(1 .. n) /\ Len(a) = Len(b)
  <2>1. Starts(s) \in SUBSET (1 .. n) /\ Stops(s) \in SUBSET (1 .. n)
    BY <1>2, TextIs DEF Starts, Stops
  <2>2. a \in Seq(Starts(s)) /\ b \in Seq(Stops(s))
    BY <1>2, <1>6, <2>1, OrderedType
  <2> QED
    BY <1>6, <2>1, <2>2 DEF Even
<1>9. ASSUME NEW k \in DOMAIN a PROVE Piece(u, a[k], b[k]) = Piece(s, a[k], b[k])
  <2>1. PICK i \in 1 .. n, j \in 1 .. n : i = a[k] /\ j = b[k]
    BY <1>8
  <2>2. SubSeq(u, i, j) = SubSeq(s, i, j)
    <3>1. PICK P : P = Chars \ {"LF"}
      OBVIOUS
    <3>2. s \in Seq(P) /\ u \in Seq(P) /\ n <= Len(u)
      BY <1>2, <1>3, <3>1 DEF Texts
    <3>3. \A m \in 1 .. n : u[m] = s[m]
      BY <1>3
    <3> QED
      BY <1>2, <3>2, <3>3, SameSubSeq
  <2> QED
    BY <2>1, <2>2 DEF Piece
<1>10. WordsAs(u, a, b) = WordsAs(s, a, b)
  BY <1>9 DEF WordsAs
<1> QED
  BY <1>1, <1>6, <1>7, <1>8, <1>10, WordsOfIs DEF Even

LEMMA WordsOfMore ==
  ASSUME NEW s \in Texts, NEW w \in Words, Even(s), Apart(s)
  PROVE  Even(s \o w) /\ WordsOf(s \o w) = Append(WordsOf(s), w)
<1>1. PICK u : u = s \o w
  OBVIOUS
<1>2. PICK n \in Nat, l \in Nat : n = Len(s) /\ l = Len(w) /\ l > 0
  BY TextIs, WordIs
<1>3. /\ u \in Texts /\ Len(u) = n + l
      /\ \A k \in 1 .. n : u[k] = s[k]
      /\ \A k \in 1 .. l : u[n + k] = w[k]
  BY <1>1, <1>2, TextConcat, WordIs
<1>4. ASSUME NEW k PROVE k \in Dark(u) <=> (k \in Dark(s) \/ k \in n + 1 .. n + l)
  <2>1. CASE k \in 1 .. n
    BY <1>2, <1>3, <2>1, TextIs
  <2>2. CASE k \in n + 1 .. n + l
    <3>1. k - n \in 1 .. l /\ n + (k - n) = k
      BY <2>2
    <3>2. u[k] \notin Blanks
      <4>1. PICK i \in 1 .. l : i = k - n /\ n + i = k
        BY <3>1
      <4>2. u[n + i] = w[i] /\ w[i] \notin Blanks
        BY <1>2, <1>3, WordIs
      <4> QED
        BY <4>1, <4>2
    <3>3. k \in 1 .. Len(u)
      BY <1>2, <1>3, <2>2
    <3> QED
      BY <1>3, <2>2, <3>2, <3>3, TextIs
  <2>3. CASE k \notin 1 .. n + l
    <3>1. k \notin 1 .. Len(u) /\ k \notin 1 .. Len(s)
      BY <1>2, <1>3, <2>3
    <3> QED
      BY <1>2, <1>3, <2>3, <3>1, TextIs
  <2> QED
    BY <1>2, <2>1, <2>2, <2>3
<1>5. Dark(s) \in SUBSET (1 .. n) /\ n \notin Dark(s)
  <2>1. Dark(s) \in SUBSET (1 .. n)
    BY <1>2, TextIs
  <2>2. CASE n = 0
    BY <2>1, <2>2
  <2>3. CASE n # 0
    <3>1. s[n] \in Blanks /\ n \in 1 .. n
      BY <1>2, <2>3, TextIs DEF Apart
    <3>2. n \notin Dark(s)
      BY <1>2, <3>1, TextIs
    <3> QED
      BY <2>1, <3>2
  <2> QED
    BY <2>2, <2>3
<1>6. Starts(u) = Starts(s) \cup {n + 1}
  <2>1. ASSUME NEW k PROVE k \in Starts(u) <=> (k \in Starts(s) \/ k = n + 1)
    <3>1. CASE k \in 1 .. n
      BY <1>4, <1>5, <3>1 DEF Starts
    <3>2. CASE k \in n + 1 .. n + l
      BY <1>4, <1>5, <3>2 DEF Starts
    <3>3. CASE k \notin 1 .. n + l
      BY <1>2, <1>4, <1>5, <3>3 DEF Starts
    <3> QED
      BY <1>2, <3>1, <3>2, <3>3
  <2> QED
    BY <2>1
<1>7. Stops(u) = Stops(s) \cup {n + l}
  <2>1. ASSUME NEW k PROVE k \in Stops(u) <=> (k \in Stops(s) \/ k = n + l)
    <3>1. CASE k \in 1 .. n
      BY <1>2, <1>4, <1>5, <3>1 DEF Stops
    <3>2. CASE k \in n + 1 .. n + l
      BY <1>4, <1>5, <3>2 DEF Stops
    <3>3. CASE k \notin 1 .. n + l
      BY <1>2, <1>4, <1>5, <3>3 DEF Stops
    <3> QED
      BY <1>2, <3>1, <3>2, <3>3
  <2> QED
    BY <2>1
<1>8. PICK a, b : a = Ordered(Starts(s)) /\ b = Ordered(Stops(s))
  OBVIOUS
<1>9. Starts(s) \in SUBSET (1 .. n) /\ Stops(s) \in SUBSET (1 .. n)
  BY <1>5 DEF Starts, Stops
<1>10. a \in Seq(1 .. n) /\ b \in Seq(1 .. n) /\ Len(a) = Len(b)
  <2>1. a \in Seq(Starts(s)) /\ b \in Seq(Stops(s))
    BY <1>8, <1>9, OrderedType
  <2> QED
    BY <1>8, <1>9, <2>1 DEF Even
<1>11. Ordered(Starts(u)) = Append(a, n + 1) /\ Ordered(Stops(u)) = Append(b, n + l)
  <2>1. n + 1 \in Nat /\ n + l \in Nat /\ n < n + 1 /\ n < n + l
    BY <1>2
  <2> QED
    BY <1>6, <1>7, <1>8, <1>9, <2>1, OrderedMore
<1>12. PICK c, d : c = Append(a, n + 1) /\ d = Append(b, n + l)
  OBVIOUS
<1>13. PICK m \in Nat : m = Len(a) /\ m = Len(b)
  BY <1>10
<1>14. /\ DOMAIN a = 1 .. m /\ DOMAIN c = 1 .. m + 1
       /\ Len(c) = m + 1 /\ Len(d) = m + 1
       /\ \A k \in 1 .. m : c[k] = a[k] /\ d[k] = b[k] /\ a[k] \in 1 .. n /\ b[k] \in 1 .. n
       /\ c[m + 1] = n + 1 /\ d[m + 1] = n + l
  <2>1. PICK x \in Nat, y \in Nat : x = n + 1 /\ y = n + l
    OBVIOUS
  <2>2. a \in Seq(Nat) /\ b \in Seq(Nat) /\ c = Append(a, x) /\ d = Append(b, y)
    BY <1>10, <1>12, <2>1
  <2>3. /\ c \in Seq(Nat) /\ Len(c) = m + 1 /\ c[m + 1] = x
        /\ \A k \in 1 .. m : c[k] = a[k]
    <3>1. c \in Seq(Nat) /\ Len(c) = Len(a) + 1 /\ c[Len(a) + 1] = x
          /\ \A k \in 1 .. Len(a) : c[k] = a[k]
      BY <2>1, <2>2, Append1
    <3> QED
      BY <1>13, <3>1
  <2>4. Len(d) = m + 1 /\ d[m + 1] = y /\ \A k \in 1 .. m : d[k] = b[k]
    BY <1>13, <2>1, <2>2, Append1
  <2>6. DOMAIN a = 1 .. m /\ DOMAIN c = 1 .. m + 1
    BY <1>13, <2>2, <2>3
  <2>5. \A k \in 1 .. m : a[k] \in 1 .. n /\ b[k] \in 1 .. n
    BY <1>10, <1>13
  <2> QED
    BY <2>1, <2>3, <2>4, <2>5, <2>6
<1>15. ASSUME NEW k \in 1 .. m PROVE Piece(u, c[k], d[k]) = Piece(s, a[k], b[k])
  <2>1. PICK i \in 1 .. n, j \in 1 .. n : i = a[k] /\ j = b[k] /\ i = c[k] /\ j = d[k]
    BY <1>14
  <2>2. SubSeq(u, i, j) = SubSeq(s, i, j)
    <3>1. PICK P : P = Chars \ {"LF"}
      OBVIOUS
    <3>2. s \in Seq(P) /\ u \in Seq(P) /\ n <= Len(u)
      BY <1>2, <1>3, <3>1 DEF Texts
    <3>3. \A z \in 1 .. n : u[z] = s[z]
      BY <1>3
    <3> QED
      BY <1>2, <3>2, <3>3, SameSubSeq
  <2> QED
    BY <2>1, <2>2 DEF Piece
<1>16. Piece(u, n + 1, n + l) = w
  BY <1>1, <1>2, WordIs DEF Texts, Piece
<1>17. WordsAs(u, c, d) = Append(WordsAs(s, a, b), w)
  <2>1. PICK x, y : x = WordsAs(u, c, d) /\ y = WordsAs(s, a, b)
    OBVIOUS
  <2>2. x = [k \in 1 .. m + 1 |-> Piece(u, c[k], d[k])]
        /\ y = [k \in 1 .. m |-> Piece(s, a[k], b[k])]
    BY <1>14, <2>1 DEF WordsAs
  <2>3. x[m + 1] = w
    <3>1. x[m + 1] = Piece(u, c[m + 1], d[m + 1])
      BY <2>2
    <3> QED
      BY <1>14, <1>16, <3>1
  <2>4. ASSUME NEW k \in 1 .. m PROVE x[k] = y[k]
    <3>1. x[k] = Piece(u, c[k], d[k]) /\ y[k] = Piece(s, a[k], b[k])
      BY <2>2
    <3> QED
      BY <1>15, <3>1
  <2>5. x = [k \in 1 .. m + 1 |-> x[k]]
    BY <2>2
  <2> DEFINE P == {y[k] : k \in 1 .. m} \cup {w}
  <2>6. y \in Seq(P) /\ Len(y) = m
    <3>1. y \in [1 .. m -> P]
      BY <2>2
    <3> QED
      BY <3>1
  <2>7. x \in Seq(P) /\ Len(x) = m + 1
    <3>1. x \in [1 .. m + 1 -> P]
      <4>1. ASSUME NEW k \in 1 .. m + 1 PROVE x[k] \in P
        <5>1. CASE k \in 1 .. m
          BY <2>4, <5>1
        <5>2. CASE k = m + 1
          BY <2>3, <5>2
        <5> QED
          BY <5>1, <5>2
      <4> HIDE DEF P
      <4> QED
        BY <2>5, <4>1
    <3> QED
      BY <3>1
  <2>8. w \in P
    OBVIOUS
  <2> HIDE DEF P
  <2>9. x = Append(y, w)
    BY <2>3, <2>6, <2>7, <2>8, <2>4
  <2> QED
    BY <2>1, <2>9
<1> QED
  BY <1>1, <1>8, <1>11, <1>12, <1>14, <1>17, WordsOfIs DEF Even

-----------------------------------------------------------------------------
(* Streams *)

LEMMA SequenceIs ==
  ASSUME NEW P, NEW s \in Seq(P)
  PROVE  DOMAIN s = 1 .. Len(s) /\ Len(s) \in Nat /\ (s = <<>> <=> Len(s) = 0)
  OBVIOUS

LEMMA FindIs ==
  ASSUME NEW P, NEW s \in Seq(P), NEW stops
  PROVE  LET e == Find(s, stops)
         IN  /\ e \in 1 .. Len(s) + 1
             /\ \A i \in 1 .. Len(s) : i < e => s[i] \notin stops
             /\ e # Len(s) + 1 => s[e] \in stops
<1>1. PICK n \in Nat : n = Len(s) /\ DOMAIN s = 1 .. n
  OBVIOUS
<1>2. PICK at : at = {i \in 1 .. n : s[i] \in stops}
  OBVIOUS
<1> at \in SUBSET Nat
  BY <1>2
<1>3. PICK e : e = Find(s, stops)
  OBVIOUS
<1>4. CASE at = {}
  <2>1. e = n + 1
    BY <1>1, <1>2, <1>3, <1>4 DEF Find
  <2> QED
    BY <1>1, <1>2, <1>3, <1>4, <2>1
<1>5. CASE at # {}
  <2>1. PICK c \in at : \A x \in at : ~ (x < c)
    BY <1>5, LeastNatural
  <2>2. \A x \in at : c <= x
    BY <2>1
  <2>3. Min(at) = c
    BY <2>2, MinIs
  <2>4. e = c
    BY <1>1, <1>2, <1>3, <1>5, <2>3 DEF Find
  <2>5. c \in 1 .. n /\ s[c] \in stops
    BY <1>2
  <2>6. \A i \in 1 .. n : i < c => s[i] \notin stops
    BY <1>2, <2>1
  <2> QED
    BY <1>1, <1>3, <2>4, <2>5, <2>6
<1> QED
  BY <1>4, <1>5

\* a and b are what s has before the place e and from there on.
IsSplit(s, n, e, a, b) ==
  /\ a = SubSeq(s, 1, e - 1) /\ b = SubSeq(s, e, n) /\ s = a \o b
  /\ Len(a) = e - 1 /\ Len(b) = n + 1 - e
  /\ \A i \in 1 .. e - 1 : a[i] = s[i]
  /\ \A i \in 1 .. n + 1 - e : b[i] = s[e + i - 1]

LEMMA SplitAt ==
  ASSUME NEW P, NEW s \in Seq(P), NEW n \in Nat, n = Len(s), NEW e \in 1 .. n + 1
  PROVE  \E a \in Seq(P), b \in Seq(P) : IsSplit(s, n, e, a, b)
<1>1. PICK a : a = SubSeq(s, 1, e - 1)
  OBVIOUS
<1>2. a \in Seq(P) /\ Len(a) = e - 1 /\ \A i \in 1 .. e - 1 : a[i] = s[i]
  BY <1>1
<1>3. PICK b : b = SubSeq(s, e, n)
  OBVIOUS
<1>4. b \in Seq(P) /\ Len(b) = n + 1 - e /\ \A i \in 1 .. n + 1 - e : b[i] = s[e + i - 1]
  BY <1>3
<1>5. PICK l \in Nat : l = e - 1
  OBVIOUS
<1>6. PICK m \in Nat : m = n + 1 - e
  OBVIOUS
<1>7. l = e - 1 /\ m = n + 1 - e /\ n = l + m
  BY <1>5, <1>6
<1>8. /\ a \o b \in Seq(P) /\ Len(a \o b) = l + m
      /\ \A i \in 1 .. l : (a \o b)[i] = a[i]
      /\ \A i \in 1 .. m : (a \o b)[l + i] = b[i]
  <2>1. /\ a \o b \in Seq(P) /\ Len(a \o b) = Len(a) + Len(b)
        /\ \A i \in 1 .. Len(a) : (a \o b)[i] = a[i]
        /\ \A i \in 1 .. Len(b) : (a \o b)[Len(a) + i] = b[i]
    <3>1. a \in Seq(P) /\ b \in Seq(P)
      BY <1>2, <1>4
    <3> QED
      BY <3>1, Concat
  <2>2. Len(a) = l /\ Len(b) = m
    BY <1>2, <1>4, <1>7
  <2> QED
    BY <2>1, <2>2
<1>9. PICK t \in Seq(P) : t = a \o b
  BY <1>8
<1>10. ASSUME NEW i \in 1 .. n PROVE t[i] = s[i]
  <2>1. CASE i <= l
    BY <1>2, <1>7, <1>8, <1>9, <2>1
  <2>2. CASE i > l
    <3>1. PICK j \in 1 .. m : i = l + j /\ e + j - 1 = i
      <4>1. i - l \in 1 .. m /\ i = l + (i - l) /\ e + (i - l) - 1 = i
        BY <1>7, <2>2
      <4> QED
        BY <4>1
    <3>2. t[i] = b[j]
      BY <1>8, <1>9, <3>1
    <3>3. b[j] = s[i]
      BY <1>4, <1>7, <3>1
    <3> QED
      BY <3>2, <3>3
  <2> QED
    BY <2>1, <2>2
<1>11. s = t
  BY <1>7, <1>8, <1>9, <1>10, SameSequence
<1>12. s = a \o b
  BY <1>9, <1>11
<1>13. IsSplit(s, n, e, a, b)
  BY <1>1, <1>2, <1>3, <1>4, <1>12 DEF IsSplit
<1> QED
  BY <1>2, <1>4, <1>13

LEMMA NoWord ==
  ASSUME NEW s \in Texts, ~ HasWord(s)
  PROVE  BlankText(s) /\ Word(s) = <<>> /\ AfterWord(s) = <<>>
<1>1. PICK P : P = Chars \ {"LF"} /\ s \in Seq(P)
  BY DEF Texts
<1>2. PICK n \in Nat : n = Len(s)
  BY <1>1
<1>3. PICK e : e = Find(s, Chars \ Blanks)
  OBVIOUS
<1>4. /\ e \in 1 .. n + 1
      /\ \A i \in 1 .. n : i < e => s[i] \notin Chars \ Blanks
  BY <1>1, <1>2, <1>3, FindIs
<1>5. SubSeq(s, e, n) = <<>>
  BY <1>2, <1>3 DEF HasWord, Skipped, From
<1>6. e = n + 1
  <2>1. PICK a \in Seq(P), b \in Seq(P) : IsSplit(s, n, e, a, b)
    BY <1>1, <1>2, <1>4, SplitAt
  <2>2. b = <<>> /\ Len(b) = n + 1 - e
    BY <1>5, <2>1 DEF IsSplit
  <2> QED
    BY <1>4, <2>2
<1>7. BlankText(s)
  <2>1. \A i \in 1 .. n : s[i] \in Chars
    BY <1>1, <1>2
  <2> QED
    BY <1>2, <1>4, <1>6, <2>1 DEF BlankText
<1>8. Skipped(s) = <<>>
  BY DEF HasWord
<1>9. PICK z : z = <<>>
  OBVIOUS
<1>10. z \in Seq(P) /\ Len(z) = 0
  BY <1>9
<1>11. Find(z, Blanks) \in 1 .. 0 + 1
  BY <1>10, FindIs
<1>12. Find(z, Blanks) = 1
  BY <1>11
<1>13. SubSeq(z, 1, 1 - 1) = <<>> /\ SubSeq(z, 1, Len(z)) = <<>>
  BY <1>9
<1>14. Word(s) = <<>>
  <2>1. Word(s) = SubSeq(z, 1, 1 - 1)
    BY <1>8, <1>9, <1>12 DEF Word
  <2> QED
    BY <1>13, <2>1
<1>15. AfterWord(s) = <<>>
  <2>1. AfterWord(s) = SubSeq(z, 1, Len(z))
    BY <1>8, <1>9, <1>12 DEF AfterWord, From
  <2> QED
    BY <1>13, <2>1
<1> QED
  BY <1>7, <1>14, <1>15

LEMMA Extraction ==
  ASSUME NEW s \in Texts, HasWord(s)
  PROVE  \E gap \in Texts, w \in Words, rest \in Texts :
           /\ s = (gap \o w) \o rest
           /\ w = Word(s) /\ rest = AfterWord(s)
           /\ BlankText(gap) /\ (gap = <<>> => s[1] \notin Blanks)
           /\ (rest = <<>> \/ rest[1] \in Blanks)
<1>1. PICK P : P = Chars \ {"LF"} /\ s \in Seq(P)
  BY DEF Texts
<1>2. PICK n \in Nat : n = Len(s)
  BY <1>1
<1>3. PICK e : e = Find(s, Chars \ Blanks)
  OBVIOUS
<1>4. /\ e \in 1 .. n + 1
      /\ \A i \in 1 .. n : i < e => s[i] \notin Chars \ Blanks
      /\ e # n + 1 => s[e] \in Chars \ Blanks
  BY <1>1, <1>2, <1>3, FindIs
<1>5. PICK gap \in Seq(P), dark \in Seq(P) : IsSplit(s, n, e, gap, dark)
  BY <1>1, <1>2, <1>4, SplitAt
<1>6. /\ gap = SubSeq(s, 1, e - 1) /\ dark = SubSeq(s, e, n) /\ s = gap \o dark
      /\ Len(gap) = e - 1 /\ Len(dark) = n + 1 - e
      /\ \A i \in 1 .. e - 1 : gap[i] = s[i]
      /\ \A i \in 1 .. n + 1 - e : dark[i] = s[e + i - 1]
  BY <1>5 DEF IsSplit
<1>7. dark = Skipped(s) /\ dark # <<>>
  BY <1>2, <1>3, <1>6 DEF HasWord, Skipped, From
<1>8. e \in 1 .. n /\ s[e] \notin Blanks
  <2>1. Len(dark) # 0
    BY <1>7
  <2>2. e # n + 1
    BY <1>4, <1>6, <2>1
  <2> QED
    BY <1>4, <2>2
<1>9. BlankText(gap)
  <2>1. \A i \in 1 .. n : s[i] \in Chars
    BY <1>1, <1>2
  <2>2. ASSUME NEW i \in 1 .. e - 1 PROVE gap[i] \in Blanks
    <3>1. i \in 1 .. n /\ i < e
      BY <1>8
    <3>2. gap[i] = s[i]
      BY <1>6
    <3> QED
      BY <1>4, <2>1, <3>1, <3>2
  <2> QED
    BY <1>6, <2>2 DEF BlankText
<1>10. PICK l \in Nat \ {0} : l = Len(dark) /\ l = n + 1 - e
  BY <1>6, <1>8
<1>11. PICK f : f = Find(dark, Blanks)
  OBVIOUS
<1>12. /\ f \in 1 .. l + 1
       /\ \A i \in 1 .. l : i < f => dark[i] \notin Blanks
       /\ f # l + 1 => dark[f] \in Blanks
  BY <1>6, <1>10, <1>11, FindIs
<1>13. PICK w \in Seq(P), rest \in Seq(P) : IsSplit(dark, l, f, w, rest)
  BY <1>10, <1>12, SplitAt
<1>14. /\ w = SubSeq(dark, 1, f - 1) /\ rest = SubSeq(dark, f, l) /\ dark = w \o rest
       /\ Len(w) = f - 1 /\ Len(rest) = l + 1 - f
       /\ \A i \in 1 .. f - 1 : w[i] = dark[i]
       /\ \A i \in 1 .. l + 1 - f : rest[i] = dark[f + i - 1]
  BY <1>13 DEF IsSplit
<1>15. dark[1] \notin Blanks
  <2>1. 1 \in 1 .. n + 1 - e /\ e + 1 - 1 = e
    BY <1>8
  <2>2. dark[1] = s[e]
    BY <1>6, <2>1
  <2> QED
    BY <1>8, <2>2
<1>16. f # 1
  BY <1>10, <1>12, <1>15
<1>17. w \in Words
  <2>1. \A i \in 1 .. f - 1 : w[i] \notin Blanks
    BY <1>12, <1>14
  <2>2. w # <<>> /\ DOMAIN w = 1 .. f - 1
    <3>1. PICK k \in Nat \ {0} : k = f - 1 /\ Len(w) = k
      BY <1>12, <1>14, <1>16
    <3>2. w # <<>> /\ DOMAIN w = 1 .. k
      BY <3>1, SequenceIs
    <3> QED
      BY <3>1, <3>2
  <2>3. ToSet(w) \cap Blanks = {}
    BY <2>1, <2>2 DEF ToSet
  <2> QED
    BY <1>1, <2>2, <2>3 DEF Words, Texts
<1>18. w = Word(s) /\ rest = AfterWord(s)
  BY <1>7, <1>10, <1>11, <1>14 DEF Word, AfterWord, From
<1>19. gap = <<>> => s[1] \notin Blanks
  <2>1. ASSUME gap = <<>> PROVE e = 1
    <3>1. Len(gap) = 0 /\ Len(gap) = e - 1
      BY <1>6, <2>1
    <3> QED
      BY <1>8, <3>1
  <2> QED
    BY <1>8, <2>1
<1>20. rest = <<>> \/ rest[1] \in Blanks
  <2>1. CASE f = l + 1
    BY <1>14, <2>1
  <2>2. CASE f # l + 1
    <3>1. 1 \in 1 .. l + 1 - f /\ f + 1 - 1 = f
      BY <1>12, <2>2
    <3>2. rest[1] = dark[f]
      BY <1>14, <3>1
    <3> QED
      BY <1>12, <2>2, <3>2
  <2> QED
    BY <2>1, <2>2
<1>21. s = (gap \o w) \o rest
  <2>1. (gap \o w) \o rest = gap \o (w \o rest)
    BY Associative
  <2> QED
    BY <1>6, <1>14, <2>1
<1>22. gap \in Texts /\ rest \in Texts
  BY <1>1 DEF Texts
<1> QED
  BY <1>9, <1>17, <1>18, <1>19, <1>20, <1>21, <1>22

-----------------------------------------------------------------------------
(* Lines and messages, one more at a time *)

LEMMA IsAppend ==
  ASSUME NEW P, NEW x \in Seq(P), NEW y \in Seq(P), NEW e \in P, NEW m \in Nat,
         Len(y) = m, Len(x) = m + 1, \A k \in 1 .. m : x[k] = y[k], x[m + 1] = e
  PROVE  x = Append(y, e)
<1>1. PICK z : z = Append(y, e)
  OBVIOUS
<1>2. /\ z \in Seq(P) /\ Len(z) = m + 1 /\ z[m + 1] = e
      /\ \A k \in 1 .. m : z[k] = y[k]
  BY <1>1, Append1
<1>3. \A k \in 1 .. m + 1 : z[k] = x[k]
  BY <1>2
<1>4. x = z
  BY <1>2, <1>3, SameSequence
<1> QED
  BY <1>1, <1>4

LEMMA SeqMonotonic == ASSUME NEW A, NEW B, A \subseteq B, NEW s \in Seq(A) PROVE s \in Seq(B)
  OBVIOUS

LEMMA OrderedBound ==
  ASSUME NEW n \in Nat, NEW at \in SUBSET (1 .. n)
  PROVE  Ordered(at) \in Seq(1 .. n)
<1>1. PICK a : a = Ordered(at)
  OBVIOUS
<1>2. a \in Seq(at)
  BY <1>1, OrderedType
<1>3. PICK P : P = 1 .. n
  OBVIOUS
<1>4. a \in Seq(P)
  BY <1>2, <1>3, SeqMonotonic
<1> QED
  BY <1>1, <1>3, <1>4

\* x is a sequence of m elements.
Table(x, m) == x = [k \in 1 .. m |-> x[k]]

LEMMA AppendIs ==
  ASSUME NEW m \in Nat, NEW x, NEW y, Table(x, m + 1), Table(y, m),
         \A k \in 1 .. m : x[k] = y[k], NEW e, x[m + 1] = e
  PROVE  x = Append(y, e)
<1> DEFINE P == {y[k] : k \in 1 .. m} \cup {e}
<1>1. y \in Seq(P) /\ Len(y) = m
  <2>1. y \in [1 .. m -> P]
    BY DEF Table
  <2> QED
    BY <2>1
<1>2. x \in Seq(P) /\ Len(x) = m + 1
  <2>1. ASSUME NEW k \in 1 .. m + 1 PROVE x[k] \in P
    <3>1. CASE k \in 1 .. m
      BY <3>1
    <3>2. CASE k = m + 1
      BY <3>2
    <3> QED
      BY <3>1, <3>2
  <2> HIDE DEF P
  <2>2. x \in [1 .. m + 1 -> P]
    BY <2>1 DEF Table
  <2> QED
    BY <2>2
<1>3. e \in P
  OBVIOUS
<1> HIDE DEF P
<1>4. \A k \in 1 .. m : x[k] = y[k]
  OBVIOUS
<1> QED
  BY <1>1, <1>2, <1>3, <1>4, IsAppend

LEMMA SelectedMore ==
  ASSUME NEW P, NEW s \in Seq(P), NEW e \in P, NEW n \in Nat, n = Len(s),
         NEW at \in SUBSET (1 .. n)
  PROVE  /\ Selected(Append(s, e), at) = Selected(s, at)
         /\ Selected(Append(s, e), at \cup {n + 1}) = Append(Selected(s, at), e)
<1>1. PICK t : t = Append(s, e)
  OBVIOUS
<1>2. t[n + 1] = e /\ \A k \in 1 .. n : t[k] = s[k]
  BY <1>1
<1>3. PICK a : a = Ordered(at)
  OBVIOUS
<1>4. a \in Seq(1 .. n)
  BY <1>3, OrderedBound
<1>5. PICK m \in Nat : m = Len(a) /\ DOMAIN a = 1 .. m
  BY <1>4, SequenceIs
<1>6. \A k \in 1 .. m : a[k] \in 1 .. n
  BY <1>4, <1>5
<1>7. PICK y : y = Selected(s, at)
  OBVIOUS
<1>8. y = [k \in 1 .. m |-> s[a[k]]]
  BY <1>3, <1>5, <1>7 DEF Selected
<1>9. Selected(t, at) = [k \in 1 .. m |-> t[a[k]]]
  BY <1>3, <1>5 DEF Selected
<1>10. Selected(t, at) = y
  BY <1>2, <1>6, <1>8, <1>9
<1>11. PICK c : c = Append(a, n + 1)
  OBVIOUS
<1>12. c = Ordered(at \cup {n + 1})
  <2>1. PICK j \in Nat : j = n + 1 /\ n < j
    OBVIOUS
  <2>2. Ordered(at \cup {j}) = Append(Ordered(at), j)
    BY <2>1, OrderedMore
  <2> QED
    BY <1>3, <1>11, <2>1, <2>2
<1>13. DOMAIN c = 1 .. m + 1 /\ c[m + 1] = n + 1 /\ \A k \in 1 .. m : c[k] = a[k]
  <2>1. a \in Seq(Nat) /\ n + 1 \in Nat
    BY <1>4
  <2>2. /\ c \in Seq(Nat) /\ Len(c) = Len(a) + 1 /\ c[Len(a) + 1] = n + 1
        /\ \A k \in 1 .. Len(a) : c[k] = a[k]
    BY <1>11, <2>1, Append1
  <2>3. DOMAIN c = 1 .. Len(c)
    BY <2>2, SequenceIs
  <2> QED
    BY <1>5, <2>2, <2>3
<1>14. PICK x : x = Selected(t, at \cup {n + 1})
  OBVIOUS
<1>15. x = [k \in 1 .. m + 1 |-> t[c[k]]]
  BY <1>12, <1>13, <1>14 DEF Selected
<1>16. x[m + 1] = e
  BY <1>2, <1>13, <1>15
<1>17. \A k \in 1 .. m : x[k] = y[k]
  BY <1>2, <1>6, <1>8, <1>13, <1>15
<1>18. Table(x, m + 1) /\ Table(y, m)
  BY <1>8, <1>15 DEF Table
<1>19. x = Append(y, e)
  BY <1>16, <1>17, <1>18, AppendIs
<1> QED
  BY <1>1, <1>7, <1>10, <1>14, <1>19

LEMMA SelectedType ==
  ASSUME NEW P, NEW s \in Seq(P), NEW at \in SUBSET (1 .. Len(s))
  PROVE  Selected(s, at) \in Seq(P)
<1>1. PICK n \in Nat : n = Len(s)
  OBVIOUS
<1>2. PICK a : a = Ordered(at)
  OBVIOUS
<1>3. a \in Seq(1 .. n)
  <2>1. at \in SUBSET (1 .. n)
    BY <1>1
  <2> QED
    BY <1>2, <2>1, OrderedBound
<1>4. PICK m \in Nat : m = Len(a) /\ DOMAIN a = 1 .. m
  BY <1>3, SequenceIs
<1>5. Selected(s, at) = [k \in 1 .. m |-> s[a[k]]]
  BY <1>2, <1>4 DEF Selected
<1>6. \A k \in 1 .. m : s[a[k]] \in P
  <2>1. \A k \in 1 .. m : a[k] \in 1 .. n
    BY <1>3, <1>4
  <2> QED
    BY <1>1, <2>1
<1>7. Selected(s, at) \in [1 .. m -> P]
  BY <1>5, <1>6
<1> QED
  BY <1>7

-----------------------------------------------------------------------------
(* The lines of a buffer *)

\* Nothing, or whole lines.
Closed(b) == b = <<>> \/ b[Len(b)] = "LF"

Ends(b) == {n \in DOMAIN b : b[n] = "LF"}

\* The k-th line of b, when its lines end at the places in ends.
LineAt(b, ends, k) == SubSeq(b, IF k = 1 THEN 1 ELSE ends[k - 1] + 1, ends[k] - 1)

LEMMA LinesOfIs ==
  ASSUME NEW b, NEW ends, ends = Ordered(Ends(b))
  PROVE  LinesOf(b) = [k \in DOMAIN ends |-> LineAt(b, ends, k)]
  BY DEF LinesOf, Ends, LineAt

LEMMA LastEnd ==
  ASSUME NEW b \in Seq(Chars), Closed(b), NEW n \in Nat, n = Len(b)
  PROVE  /\ Ends(b) \in SUBSET (1 .. n)
         /\ n = 0 => Ordered(Ends(b)) = <<>>
         /\ n # 0 => \E a \in Seq(1 .. n) : Ordered(Ends(b)) = Append(a, n)
<1>1. DOMAIN b = 1 .. n /\ (b = <<>> <=> n = 0)
  BY SequenceIs
<1>2. Ends(b) \in SUBSET (1 .. n)
  BY <1>1 DEF Ends
<1>3. ASSUME n = 0 PROVE Ordered(Ends(b)) = <<>>
  <2>1. Ends(b) = {}
    BY <1>2, <1>3
  <2> QED
    BY <2>1, OrderedEmpty
<1>4. ASSUME n # 0 PROVE \E a \in Seq(1 .. n) : Ordered(Ends(b)) = Append(a, n)
  <2>1. PICK m \in Nat : n = m + 1
    <3>1. n - 1 \in Nat /\ n = n - 1 + 1
      BY <1>4
    <3> QED
      BY <3>1
  <2>2. n \in Ends(b)
    BY <1>1, <1>4 DEF Ends, Closed
  <2>3. PICK at : at = Ends(b) \ {n}
    OBVIOUS
  <2>4. at \in SUBSET (1 .. m) /\ Ends(b) = at \cup {n}
    BY <1>2, <2>1, <2>2, <2>3
  <2>5. Ordered(Ends(b)) = Append(Ordered(at), n)
    <3>1. m < n
      BY <2>1
    <3> QED
      BY <2>4, <3>1, OrderedMore
  <2>6. Ordered(at) \in Seq(1 .. n)
    <3>1. at \in SUBSET (1 .. n)
      BY <2>1, <2>4
    <3> QED
      BY <3>1, OrderedBound
  <2> QED
    BY <2>5, <2>6
<1> QED
  BY <1>2, <1>3, <1>4

LEMMA SameStart ==
  ASSUME NEW P, NEW s \in Seq(P), NEW u \in Seq(P), NEW n \in Nat, n = Len(s), n <= Len(u),
         \A k \in 1 .. n : u[k] = s[k], NEW i \in 1 .. n + 1, NEW j \in 0 .. n
  PROVE  SubSeq(u, i, j) = SubSeq(s, i, j)
<1>1. SubSeq(s, i, j) \in Seq(P) /\ SubSeq(u, i, j) \in Seq(P)
  OBVIOUS
<1>2. /\ Len(SubSeq(u, i, j)) = Len(SubSeq(s, i, j))
      /\ \A k \in 1 .. Len(SubSeq(s, i, j)) : SubSeq(u, i, j)[k] = SubSeq(s, i, j)[k]
  OBVIOUS
<1> QED
  BY <1>1, <1>2, SameSequence

LEMMA MiddleIs ==
  ASSUME NEW P, NEW c \in Seq(P), NEW t \in Seq(P), NEW n \in Nat, NEW m \in Nat, m = Len(t),
         n + m <= Len(c), \A k \in 1 .. m : c[n + k] = t[k]
  PROVE  SubSeq(c, n + 1, n + m) = t
<1>1. PICK d : d = SubSeq(c, n + 1, n + m)
  OBVIOUS
<1>2. d \in Seq(P) /\ Len(d) = m /\ \A k \in 1 .. m : d[k] = c[n + k]
  BY <1>1
<1>3. d = t
  BY <1>2, SameSequence
<1> QED
  BY <1>1, <1>3

\* A line and its end after b.
WithLine(b, line) == (b \o line) \o <<"LF">>

LEMMA WithLineIs ==
  ASSUME NEW b \in Seq(Chars), NEW line \in Texts
  PROVE  LET c == WithLine(b, line)
             n == Len(b)
             m == Len(line)
         IN  /\ n \in Nat /\ m \in Nat /\ c \in Seq(Chars) /\ Len(c) = n + m + 1
             /\ \A k \in 1 .. n : c[k] = b[k]
             /\ \A k \in 1 .. m : c[n + k] = line[k]
             /\ c[n + m + 1] = "LF"
             /\ SubSeq(c, n + 1, n + m) = line
             /\ Closed(c)
<1>1. PICK P : P = Chars
  OBVIOUS
<1>2. b \in Seq(P) /\ line \in Seq(P)
  <2>1. \A Q : line \in Seq(Q \ {"LF"}) => line \in Seq(Q)
    <3>1. ASSUME NEW Q, line \in Seq(Q \ {"LF"}) PROVE line \in Seq(Q)
      <4>1. PICK A : A = Q \ {"LF"} /\ A \subseteq Q
        OBVIOUS
      <4>2. line \in Seq(A)
        BY <3>1, <4>1
      <4> QED
        BY <4>1, <4>2, SeqMonotonic
    <3> QED
      BY <3>1
  <2> QED
    BY <1>1, <2>1 DEF Texts
<1>3. PICK n \in Nat, m \in Nat : n = Len(b) /\ m = Len(line)
  BY <1>2, SequenceIs
<1>4. PICK e : e = <<"LF">>
  OBVIOUS
<1>5. e \in Seq(P) /\ Len(e) = 1 /\ e[1] = "LF"
  <2>1. "LF" \in P
    BY <1>1 DEF Chars
  <2> QED
    BY <1>4, <2>1
<1>6. PICK a : a = b \o line
  OBVIOUS
<1>7. /\ a \in Seq(P) /\ Len(a) = n + m
      /\ \A k \in 1 .. n : a[k] = b[k]
      /\ \A k \in 1 .. m : a[n + k] = line[k]
  BY <1>2, <1>3, <1>6, Concat
<1>8. PICK c : c = WithLine(b, line)
  OBVIOUS
<1>9. /\ c \in Seq(P) /\ Len(c) = n + m + 1
      /\ \A k \in 1 .. n + m : c[k] = a[k]
      /\ \A k \in 1 .. 1 : c[n + m + k] = e[k]
  <2>1. c = a \o e
    BY <1>4, <1>6, <1>8 DEF WithLine
  <2>2. /\ c \in Seq(P) /\ Len(c) = Len(a) + Len(e)
        /\ \A k \in 1 .. Len(a) : c[k] = a[k]
        /\ \A k \in 1 .. Len(e) : c[Len(a) + k] = e[k]
    <3>1. a \in Seq(P) /\ e \in Seq(P)
      BY <1>5, <1>7
    <3> QED
      BY <2>1, <3>1, Concat
  <2> QED
    BY <1>5, <1>7, <2>2
<1>10. c[n + m + 1] = "LF"
  BY <1>5, <1>9
<1>11. \A k \in 1 .. n : c[k] = b[k]
  BY <1>7, <1>9
<1>12. \A k \in 1 .. m : c[n + k] = line[k]
  <2>1. \A k \in 1 .. m : n + k \in 1 .. n + m
    OBVIOUS
  <2> QED
    BY <1>7, <1>9, <2>1
<1>13. SubSeq(c, n + 1, n + m) = line
  <2>1. n + m <= Len(c) /\ c \in Seq(P)
    BY <1>9
  <2> QED
    BY <1>2, <1>3, <1>12, <2>1, MiddleIs
<1>14. Closed(c)
  BY <1>9, <1>10 DEF Closed
<1> QED
  BY <1>1, <1>3, <1>8, <1>9, <1>10, <1>11, <1>12, <1>13, <1>14

LEMMA LinesMore ==
  ASSUME NEW b \in Seq(Chars), Closed(b), NEW line \in Texts
  PROVE  LinesOf(WithLine(b, line)) = Append(LinesOf(b), line)
<1>1. PICK c : c = WithLine(b, line)
  OBVIOUS
<1>2. PICK n \in Nat, m \in Nat : n = Len(b) /\ m = Len(line)
  BY WithLineIs
<1>3. /\ c \in Seq(Chars) /\ Len(c) = n + m + 1
      /\ \A k \in 1 .. n : c[k] = b[k]
      /\ \A k \in 1 .. m : c[n + k] = line[k]
      /\ c[n + m + 1] = "LF"
      /\ SubSeq(c, n + 1, n + m) = line
  BY <1>1, <1>2, WithLineIs
<1>4. DOMAIN b = 1 .. n /\ DOMAIN c = 1 .. n + m + 1
  BY <1>2, <1>3, SequenceIs
<1>5. \A k \in 1 .. m : line[k] # "LF"
  <2>1. line \in Seq(Chars \ {"LF"})
    BY DEF Texts
  <2> QED
    BY <1>2, <2>1
<1>6. Ends(c) = Ends(b) \cup {n + m + 1}
  <2>1. ASSUME NEW k PROVE k \in Ends(c) <=> (k \in Ends(b) \/ k = n + m + 1)
    <3>1. CASE k \in 1 .. n
      BY <1>3, <1>4, <3>1 DEF Ends
    <3>2. CASE k \in n + 1 .. n + m
      <4>1. PICK i \in 1 .. m : k = n + i
        <5>1. k - n \in 1 .. m /\ k = n + (k - n)
          BY <3>2
        <5> QED
          BY <5>1
      <4>2. c[k] # "LF"
        BY <1>3, <1>5, <4>1
      <4> QED
        BY <1>4, <3>2, <4>2 DEF Ends
    <3>3. CASE k = n + m + 1
      BY <1>3, <1>4, <3>3 DEF Ends
    <3>4. CASE k \notin 1 .. n + m + 1
      BY <1>4, <3>4 DEF Ends
    <3> QED
      BY <3>1, <3>2, <3>3, <3>4
  <2> QED
    BY <2>1
<1>7. PICK a : a = Ordered(Ends(b))
  OBVIOUS
<1>8. /\ Ends(b) \in SUBSET (1 .. n)
      /\ n = 0 => a = <<>>
      /\ n # 0 => \E x \in Seq(1 .. n) : a = Append(x, n)
  BY <1>2, <1>7, LastEnd
<1>9. a \in Seq(1 .. n)
  BY <1>7, <1>8, OrderedBound
<1>10. PICK l \in Nat : l = Len(a) /\ DOMAIN a = 1 .. l /\ (a = <<>> <=> l = 0)
  BY <1>9, SequenceIs
<1>11. \A k \in 1 .. l : a[k] \in 1 .. n
  BY <1>9, <1>10
<1>12. PICK d : d = Ordered(Ends(c))
  OBVIOUS
<1>13. PICK z \in Nat : z = n + m + 1
  OBVIOUS
<1>14. d = Append(a, z)
  <2>1. n < z
    BY <1>13
  <2> QED
    BY <1>6, <1>7, <1>8, <1>12, <1>13, <2>1, OrderedMore
<1>15. DOMAIN d = 1 .. l + 1 /\ d[l + 1] = z /\ \A k \in 1 .. l : d[k] = a[k]
  <2>1. a \in Seq(Nat)
    BY <1>9
  <2>2. /\ d \in Seq(Nat) /\ Len(d) = Len(a) + 1 /\ d[Len(a) + 1] = z
        /\ \A k \in 1 .. Len(a) : d[k] = a[k]
    BY <1>14, <2>1, Append1
  <2>3. DOMAIN d = 1 .. Len(d)
    BY <2>2, SequenceIs
  <2> QED
    BY <1>10, <2>2, <2>3
<1>16. PICK x, y : x = LinesOf(c) /\ y = LinesOf(b)
  OBVIOUS
<1>17. x = [k \in 1 .. l + 1 |-> LineAt(c, d, k)] /\ y = [k \in 1 .. l |-> LineAt(b, a, k)]
  BY <1>7, <1>10, <1>12, <1>15, <1>16, LinesOfIs
<1>18. ASSUME NEW k \in 1 .. l PROVE x[k] = y[k]
  <2>1. PICK j \in 1 .. n : j = a[k] /\ j = d[k]
    BY <1>11, <1>15
  <2>2. PICK i \in 1 .. n + 1 : /\ i = (IF k = 1 THEN 1 ELSE a[k - 1] + 1)
                                /\ i = (IF k = 1 THEN 1 ELSE d[k - 1] + 1)
    <3>1. CASE k = 1
      BY <2>1, <3>1
    <3>2. CASE k # 1
      <4>1. k - 1 \in 1 .. l
        BY <3>2
      <4>2. a[k - 1] \in 1 .. n /\ a[k - 1] = d[k - 1]
        BY <1>11, <1>15, <4>1
      <4> QED
        BY <3>2, <4>2
    <3> QED
      BY <3>1, <3>2
  <2>3. PICK h \in 0 .. n : h = j - 1
    OBVIOUS
  <2>4. SubSeq(c, i, h) = SubSeq(b, i, h)
    <3>1. n <= Len(c) /\ \A q \in 1 .. n : c[q] = b[q]
      BY <1>3
    <3> QED
      BY <1>2, <1>3, <3>1, SameStart
  <2>5. LineAt(c, d, k) = SubSeq(c, i, h) /\ LineAt(b, a, k) = SubSeq(b, i, h)
    BY <2>1, <2>2, <2>3, Zenon DEF LineAt
  <2>6. x[k] = LineAt(c, d, k) /\ y[k] = LineAt(b, a, k)
    BY <1>17
  <2> QED
    BY <2>4, <2>5, <2>6
<1>19. x[l + 1] = line
  <2>1. x[l + 1] = LineAt(c, d, l + 1)
    BY <1>17
  <2>2. (IF l + 1 = 1 THEN 1 ELSE d[l + 1 - 1] + 1) = n + 1
    <3>1. CASE l = 0
      <4>1. n = 0
        <5>1. SUFFICES ASSUME n # 0 PROVE FALSE
          OBVIOUS
        <5>2. PICK w \in Seq(1 .. n) : a = Append(w, n)
          BY <1>8, <5>1
        <5>3. a # <<>>
          BY <5>2
        <5> QED
          BY <1>10, <3>1, <5>3
      <4> QED
        BY <3>1, <4>1
    <3>2. CASE l # 0
      <4>1. n # 0
        BY <1>8, <1>10, <3>2
      <4>2. PICK w \in Seq(1 .. n) : a = Append(w, n)
        BY <1>8, <4>1
      <4>3. w \in Seq(Nat)
        OBVIOUS
      <4>4. Len(a) = Len(w) + 1 /\ a[Len(w) + 1] = n
        BY <4>2, <4>3, Append1
      <4>5. a[l] = n /\ l \in 1 .. l
        BY <1>10, <3>2, <4>4
      <4>6. d[l] = n /\ l + 1 - 1 = l /\ l + 1 # 1
        BY <1>15, <3>2, <4>5
      <4> QED
        BY <4>6
    <3> QED
      BY <3>1, <3>2
  <2>3. d[l + 1] - 1 = n + m
    BY <1>13, <1>15
  <2>4. LineAt(c, d, l + 1) = SubSeq(c, n + 1, n + m)
    <3>1. PICK i, j, k :
            k = l + 1 /\ i = (IF k = 1 THEN 1 ELSE d[k - 1] + 1) /\ j = d[k] - 1
      OBVIOUS
    <3>2. LineAt(c, d, k) = SubSeq(c, i, j)
      BY <3>1, Zenon DEF LineAt
    <3>3. i = n + 1 /\ j = n + m
      BY <2>2, <2>3, <3>1
    <3> QED
      BY <3>1, <3>2, <3>3, Zenon
  <2> QED
    BY <1>3, <2>1, <2>4
<1>20. Table(x, l + 1) /\ Table(y, l)
  BY <1>17 DEF Table
<1>21. x = Append(y, line)
  BY <1>18, <1>19, <1>20, AppendIs
<1> QED
  BY <1>1, <1>16, <1>21

LEMMA TableIs ==
  ASSUME NEW m \in Nat, NEW x, Table(x, m), NEW P, \A k \in 1 .. m : x[k] \in P
  PROVE  x \in Seq(P) /\ Len(x) = m /\ DOMAIN x = 1 .. m
<1>1. x \in [1 .. m -> P]
  BY DEF Table
<1> QED
  BY <1>1

LEMMA EmptyTable == ASSUME NEW x, Table(x, 0) PROVE x = <<>>
  BY DEF Table

LEMMA LinesOfTable ==
  ASSUME NEW b \in Seq(Chars) PROVE \E m \in Nat : Table(LinesOf(b), m)
<1>1. PICK n \in Nat : n = Len(b) /\ DOMAIN b = 1 .. n
  BY SequenceIs
<1>2. PICK at : at = Ends(b)
  OBVIOUS
<1>3. at \in SUBSET (1 .. n)
  BY <1>1, <1>2 DEF Ends
<1>4. PICK a : a = Ordered(at)
  OBVIOUS
<1>5. a \in Seq(1 .. n)
  BY <1>3, <1>4, OrderedBound
<1>6. PICK m \in Nat : DOMAIN a = 1 .. m
  BY <1>5, SequenceIs
<1>7. PICK x : x = LinesOf(b)
  OBVIOUS
<1>8. x = [k \in 1 .. m |-> LineAt(b, a, k)]
  BY <1>2, <1>4, <1>6, <1>7, LinesOfIs
<1>9. Table(x, m)
  BY <1>8 DEF Table
<1> QED
  BY <1>7, <1>9

\* The lines that are not empty.
Full(lines) == Selected(lines, {k \in DOMAIN lines : lines[k] # <<>>})

LEMMA FullMore ==
  ASSUME NEW P, NEW ls \in Seq(P), NEW line \in P
  PROVE  /\ line = <<>> => Full(Append(ls, line)) = Full(ls)
         /\ line # <<>> => Full(Append(ls, line)) = Append(Full(ls), line)
         /\ Full(ls) \in Seq(P)
<1>1. PICK n \in Nat : n = Len(ls) /\ DOMAIN ls = 1 .. n
  BY SequenceIs
<1>2. PICK ms : ms = Append(ls, line)
  OBVIOUS
<1>3. ms \in Seq(P) /\ Len(ms) = n + 1 /\ ms[n + 1] = line /\ \A k \in 1 .. n : ms[k] = ls[k]
  BY <1>1, <1>2, Append1
<1>4. DOMAIN ms = 1 .. n + 1
  BY <1>3, SequenceIs
<1>5. PICK at : at = {k \in DOMAIN ls : ls[k] # <<>>}
  OBVIOUS
<1>6. PICK bt : bt = {k \in DOMAIN ms : ms[k] # <<>>}
  OBVIOUS
<1>7. at \in SUBSET (1 .. n)
  BY <1>1, <1>5
<1>8. ASSUME NEW k PROVE k \in bt <=> (k \in at \/ (k = n + 1 /\ line # <<>>))
  <2>1. CASE k \in 1 .. n
    BY <1>1, <1>3, <1>4, <1>5, <1>6, <2>1
  <2>2. CASE k = n + 1
    BY <1>1, <1>3, <1>4, <1>5, <1>6, <2>2
  <2>3. CASE k \notin 1 .. n + 1
    BY <1>1, <1>4, <1>5, <1>6, <2>3
  <2> QED
    BY <2>1, <2>2, <2>3
<1>9. Full(ls) = Selected(ls, at) /\ Full(ms) = Selected(ms, bt)
  BY <1>5, <1>6 DEF Full
<1>10. /\ Selected(ms, at) = Selected(ls, at)
       /\ Selected(ms, at \cup {n + 1}) = Append(Selected(ls, at), line)
  <2>1. n = Len(ls)
    BY <1>1
  <2>2. /\ Selected(Append(ls, line), at) = Selected(ls, at)
        /\ Selected(Append(ls, line), at \cup {n + 1}) = Append(Selected(ls, at), line)
    BY <1>7, <2>1, SelectedMore
  <2> QED
    BY <1>2, <2>2
<1>11. ASSUME line = <<>> PROVE bt = at
  BY <1>8, <1>11
<1>12. ASSUME line # <<>> PROVE bt = at \cup {n + 1}
  BY <1>8, <1>12
<1>13. Selected(ls, at) \in Seq(P)
  BY <1>1, <1>7, SelectedType
<1> QED
  BY <1>2, <1>9, <1>10, <1>11, <1>12, <1>13

MeaningsOf(full) == [k \in DOMAIN full |-> Meaning(full[k])]

LEMMA MeaningsIs == ASSUME NEW b PROVE Meanings(b) = MeaningsOf(Full(LinesOf(b)))
  BY Zenon DEF Meanings, MeaningsOf, Full

LEMMA MeaningsOfMore ==
  ASSUME NEW P, NEW full \in Seq(P), NEW line \in P
  PROVE  MeaningsOf(Append(full, line)) = Append(MeaningsOf(full), Meaning(line))
<1>1. PICK n \in Nat : n = Len(full) /\ DOMAIN full = 1 .. n
  BY SequenceIs
<1>2. PICK ms : ms = Append(full, line)
  OBVIOUS
<1>3. ms \in Seq(P) /\ Len(ms) = n + 1 /\ ms[n + 1] = line /\ \A k \in 1 .. n : ms[k] = full[k]
  BY <1>1, <1>2, Append1
<1>4. DOMAIN ms = 1 .. n + 1
  BY <1>3, SequenceIs
<1>5. PICK x, y : x = MeaningsOf(ms) /\ y = MeaningsOf(full)
  OBVIOUS
<1>6. x = [k \in 1 .. n + 1 |-> Meaning(ms[k])] /\ y = [k \in 1 .. n |-> Meaning(full[k])]
  BY <1>1, <1>4, <1>5 DEF MeaningsOf
<1>7. x[n + 1] = Meaning(line) /\ \A k \in 1 .. n : x[k] = y[k]
  BY <1>3, <1>6
<1>8. Table(x, n + 1) /\ Table(y, n)
  BY <1>6 DEF Table
<1>9. x = Append(y, Meaning(line))
  BY <1>7, <1>8, AppendIs
<1> QED
  BY <1>2, <1>5, <1>9

LEMMA MeaningsMore ==
  ASSUME NEW b \in Seq(Chars), Closed(b), NEW line \in Texts
  PROVE  /\ line = <<>> => Meanings(WithLine(b, line)) = Meanings(b)
         /\ line # <<>> => Meanings(WithLine(b, line)) = Append(Meanings(b), Meaning(line))
<1>1. PICK ls : ls = LinesOf(b)
  OBVIOUS
<1>2. PICK m \in Nat : Table(ls, m)
  BY <1>1, LinesOfTable
<1> DEFINE P == {ls[k] : k \in 1 .. m} \cup {line}
<1>3. line \in P /\ \A k \in 1 .. m : ls[k] \in P
  OBVIOUS
<1> HIDE DEF P
<1>4. ls \in Seq(P)
  BY <1>2, <1>3, TableIs
<1>5. LinesOf(WithLine(b, line)) = Append(ls, line)
  BY <1>1, LinesMore
<1>6. /\ line = <<>> => Full(Append(ls, line)) = Full(ls)
      /\ line # <<>> => Full(Append(ls, line)) = Append(Full(ls), line)
      /\ Full(ls) \in Seq(P)
  BY <1>3, <1>4, FullMore
<1>7. PICK full \in Seq(P) : full = Full(ls)
  BY <1>6
<1>8. MeaningsOf(Append(full, line)) = Append(MeaningsOf(full), Meaning(line))
  BY <1>3, MeaningsOfMore
<1> QED
  BY <1>1, <1>5, <1>6, <1>7, <1>8, MeaningsIs

LEMMA MeaningsOfNothing == Meanings(<<>>) = <<>>
<1>1. PICK z : z = <<>>
  OBVIOUS
<1>2. DOMAIN z = {}
  BY <1>1
<1>3. Ends(z) = {}
  BY <1>2 DEF Ends
<1>4. LinesOf(z) = [k \in DOMAIN z |-> LineAt(z, z, k)]
  BY <1>1, <1>3, OrderedEmpty, LinesOfIs
<1>5. LinesOf(z) = z
  BY <1>1, <1>2, <1>4
<1>6. Full(z) = Selected(z, {})
  BY <1>2 DEF Full
<1>7. Full(z) = [k \in DOMAIN z |-> z[z[k]]]
  BY <1>1, <1>6, OrderedEmpty DEF Selected
<1>8. Full(z) = z
  BY <1>1, <1>2, <1>7
<1>9. MeaningsOf(z) = z
  BY <1>1, <1>2 DEF MeaningsOf
<1> QED
  BY <1>1, <1>5, <1>8, <1>9, MeaningsIs

-----------------------------------------------------------------------------
(* One extraction, one line *)

LEMMA ElementOf == ASSUME NEW P, NEW s \in Seq(P), NEW i \in 1 .. Len(s) PROVE s[i] \in P
  OBVIOUS

LEMMA OneElement ==
  ASSUME NEW P, NEW e \in P PROVE <<e>> \in Seq(P) /\ Len(<<e>>) = 1 /\ <<e>>[1] = e
  OBVIOUS

LEMMA AssociativeText ==
  ASSUME NEW a \in Texts, NEW b \in Texts, NEW c \in Texts
  PROVE  (a \o b) \o c = a \o (b \o c)
<1>1. PICK P : P = Chars \ {"LF"}
  OBVIOUS
<1>2. Texts = Seq(P)
  BY <1>1 DEF Texts
<1> QED
  BY <1>2, Associative

\* What follows an extraction begins with a blank.
Follows(r, s) == r = <<>> \/ s = <<>> \/ s[1] \in Blanks

LEMMA ExtractionStep ==
  ASSUME NEW r \in Texts, NEW s \in Texts, Even(r), Follows(r, s), HasWord(s)
  PROVE  /\ Word(s) \in Words /\ AfterWord(s) \in Texts
         /\ \E t \in Texts : /\ t \o AfterWord(s) = r \o s
                             /\ Even(t) /\ WordsOf(t) = Append(WordsOf(r), Word(s))
                             /\ Follows(t, AfterWord(s))
<1>1. PICK gap \in Texts, w \in Words, rest \in Texts :
        /\ s = (gap \o w) \o rest
        /\ w = Word(s) /\ rest = AfterWord(s)
        /\ BlankText(gap) /\ (gap = <<>> => s[1] \notin Blanks)
        /\ (rest = <<>> \/ rest[1] \in Blanks)
  BY Extraction
<1>2. w \in Texts /\ w # <<>>
  BY WordIs
<1>3. PICK q \in Texts : q = r \o gap
  BY TextConcat
<1>4. Even(q) /\ WordsOf(q) = WordsOf(r)
  BY <1>1, <1>3, WordsOfBlank
<1>5. Apart(q)
  <2>1. CASE gap = <<>>
    <3>1. s[1] \notin Blanks
      BY <1>1, <2>1
    <3>2. s # <<>>
      <4>1. PICK g \in Texts : g = gap \o w
        BY <1>2, TextConcat
      <4>2. Len(s) = Len(g) + Len(rest) /\ Len(g) = Len(gap) + Len(w)
            /\ Len(gap) \in Nat /\ Len(rest) \in Nat
        BY <1>1, <1>2, <4>1, TextConcat
      <4>3. Len(w) \in Nat \ {0}
        BY WordIs
      <4>4. Len(s) # 0
        BY <4>2, <4>3
      <4> QED
        BY <4>4, TextIs
    <3>3. r = <<>>
      BY <3>1, <3>2 DEF Follows
    <3>4. q = <<>>
      BY <1>3, <2>1, <3>3
    <3> QED
      BY <3>4 DEF Apart
  <2>2. CASE gap # <<>>
    <3>1. PICK n \in Nat, m \in Nat \ {0} : n = Len(r) /\ m = Len(gap)
      BY <2>2, TextIs
    <3>2. Len(q) = n + m /\ q[n + m] = gap[m]
      <4>1. /\ Len(r \o gap) = Len(r) + Len(gap)
            /\ \A i \in 1 .. Len(gap) : (r \o gap)[Len(r) + i] = gap[i]
        BY TextConcat
      <4> QED
        BY <1>3, <3>1, <4>1
    <3>3. gap[m] \in Blanks
      BY <1>1, <3>1 DEF BlankText
    <3> QED
      BY <3>2, <3>3 DEF Apart
  <2> QED
    BY <2>1, <2>2
<1>6. PICK t \in Texts : t = q \o w
  BY <1>2, TextConcat
<1>7. Even(t) /\ WordsOf(t) = Append(WordsOf(r), w)
  BY <1>4, <1>5, <1>6, WordsOfMore
<1>8. t \o rest = r \o s
  <2>1. PICK g \in Texts : g = gap \o w
    BY <1>2, TextConcat
  <2>2. (r \o gap) \o w = r \o g
    <3>1. \A c \in Texts : (r \o gap) \o c = r \o (gap \o c)
      BY AssociativeText
    <3>2. w \in Texts
      BY <1>2
    <3> QED
      BY <2>1, <3>1, <3>2
  <2>3. (r \o g) \o rest = r \o (g \o rest)
    <3>1. \A c \in Texts : (r \o g) \o c = r \o (g \o c)
      BY AssociativeText
    <3>2. rest \in Texts
      BY <1>1
    <3> QED
      BY <3>1, <3>2
  <2>4. t = r \o g
    BY <1>3, <1>6, <2>2, Zenon
  <2>5. s = g \o rest
    BY <1>1, <2>1, Zenon
  <2> QED
    BY <2>3, <2>4, <2>5, Zenon
<1>9. Follows(t, rest)
  BY <1>1 DEF Follows
<1> QED
  BY <1>1, <1>7, <1>8, <1>9

LEMMA LineRead ==
  ASSUME NEW u \in Seq(Chars), Closed(u), u # <<>>
  PROVE  /\ Line(u) \in Texts /\ AfterLine(u) \in Seq(Chars) /\ Closed(AfterLine(u))
         /\ u = (Line(u) \o <<"LF">>) \o AfterLine(u)
<1>1. PICK P : P = Chars /\ u \in Seq(P)
  OBVIOUS
<1>2. PICK n \in Nat \ {0} : n = Len(u)
  BY SequenceIs
<1>3. PICK e : e = Find(u, {"LF"})
  OBVIOUS
<1>4. /\ e \in 1 .. n + 1
      /\ \A i \in 1 .. n : i < e => u[i] \notin {"LF"}
      /\ e # n + 1 => u[e] \in {"LF"}
  BY <1>2, <1>3, FindIs
<1>5. u[n] = "LF"
  BY <1>2 DEF Closed
<1>6. e \in 1 .. n /\ u[e] = "LF"
  BY <1>4, <1>5
<1>7. PICK f \in 1 .. n + 1 : f = e + 1 /\ f - 1 = e
  BY <1>6
<1>8. PICK a \in Seq(P), b \in Seq(P) : IsSplit(u, n, f, a, b)
  BY <1>1, <1>2, SplitAt
<1>9. /\ a = SubSeq(u, 1, f - 1) /\ b = SubSeq(u, f, n) /\ u = a \o b
      /\ Len(a) = f - 1 /\ Len(b) = n + 1 - f
      /\ \A i \in 1 .. f - 1 : a[i] = u[i]
      /\ \A i \in 1 .. n + 1 - f : b[i] = u[f + i - 1]
  BY <1>8 DEF IsSplit
<1>10. b = AfterLine(u)
  BY <1>2, <1>3, <1>7, <1>9 DEF AfterLine, From
<1>11. Closed(b)
  <2>1. CASE f = n + 1
    <3>1. Len(b) = 0
      BY <1>9, <2>1
    <3>2. b = <<>>
      BY <3>1, SequenceIs
    <3> QED
      BY <3>2 DEF Closed
  <2>2. CASE f # n + 1
    <3>1. PICK m \in Nat : m = n + 1 - f
      OBVIOUS
    <3>2. m \in 1 .. m /\ f + m - 1 = n
      BY <2>2, <3>1
    <3>3. b[m] = u[n]
      BY <1>9, <3>1, <3>2
    <3> QED
      BY <1>5, <1>9, <3>1, <3>3 DEF Closed
  <2> QED
    BY <2>1, <2>2
<1>12. PICK line \in Seq(P), c \in Seq(P) : IsSplit(u, n, e, line, c)
  BY <1>1, <1>2, <1>6, SplitAt
<1>13. /\ line = SubSeq(u, 1, e - 1) /\ Len(line) = e - 1
       /\ \A i \in 1 .. e - 1 : line[i] = u[i]
  BY <1>12 DEF IsSplit
<1>14. line = Line(u)
  BY <1>3, <1>13 DEF Line
<1>15. line \in Texts
  <2>1. \A i \in 1 .. Len(line) : line[i] \in P \ {"LF"}
    <3>1. ASSUME NEW i \in 1 .. e - 1 PROVE line[i] \in P \ {"LF"}
      <4>1. line[i] = u[i] /\ i \in 1 .. n /\ i < e
        BY <1>6, <1>13
      <4>2. u[i] \in P
        BY <1>1, <1>2, <4>1, ElementOf
      <4> QED
        BY <1>4, <4>1, <4>2
    <3> QED
      BY <1>13, <3>1
  <2>2. PICK Q : Q = P \ {"LF"}
    OBVIOUS
  <2>3. line \in Seq(Q)
    BY <2>1, <2>2
  <2> QED
    BY <1>1, <2>2, <2>3 DEF Texts
<1>16. a = line \o <<"LF">>
  <2>1. PICK x \in Seq(P) : x = <<"LF">> /\ Len(x) = 1 /\ x[1] = "LF"
    <3>1. PICK lf \in P : lf = "LF"
      BY <1>1 DEF Chars
    <3>2. <<lf>> \in Seq(P) /\ Len(<<lf>>) = 1 /\ <<lf>>[1] = lf
      BY OneElement
    <3> QED
      BY <3>1, <3>2
  <2>2. PICK y \in Seq(P) : y = line \o x
    BY Concat
  <2>3. Len(y) = e /\ y[e] = "LF" /\ \A i \in 1 .. e - 1 : y[i] = line[i]
    <3>1. Len(y) = Len(line) + Len(x) /\ (\A i \in 1 .. Len(line) : y[i] = line[i])
          /\ (\A i \in 1 .. Len(x) : y[Len(line) + i] = x[i])
      BY <2>2, Concat
    <3>2. Len(line) + 1 = e
      BY <1>6, <1>13
    <3> QED
      BY <1>6, <1>13, <2>1, <3>1, <3>2
  <2>4. ASSUME NEW i \in 1 .. e PROVE y[i] = a[i]
    <3>1. a[i] = u[i]
      <4>1. i \in 1 .. f - 1
        BY <1>7
      <4> QED
        BY <1>9, <4>1
    <3>2. CASE i = e
      BY <1>6, <2>3, <3>1, <3>2
    <3>3. CASE i # e
      <4>1. i \in 1 .. e - 1
        BY <1>6, <3>3
      <4> QED
        BY <1>13, <2>3, <3>1, <4>1
    <3> QED
      BY <3>2, <3>3
  <2>5. Len(a) = e
    BY <1>7, <1>9
  <2>6. a = y
    BY <2>3, <2>4, <2>5, SameSequence
  <2> QED
    BY <2>1, <2>2, <2>6
<1> QED
  BY <1>1, <1>9, <1>10, <1>11, <1>14, <1>15, <1>16

LEMMA LineReadAfter ==
  ASSUME NEW d \in Seq(Chars), NEW u \in Seq(Chars), Closed(u), u # <<>>
  PROVE  d \o u = WithLine(d, Line(u)) \o AfterLine(u)
<1>1. PICK P : P = Chars /\ d \in Seq(P)
  OBVIOUS
<1>2. PICK x \in Seq(P) : x = <<"LF">>
  <2>1. PICK lf \in P : lf = "LF"
    BY <1>1 DEF Chars
  <2>2. <<lf>> \in Seq(P)
    BY OneElement
  <2> QED
    BY <2>1, <2>2
<1>3. PICK line, rest : line = Line(u) /\ rest = AfterLine(u)
  OBVIOUS
<1>4. line \in Seq(P)
  <2>1. PICK Q : Q = Chars \ {"LF"}
    OBVIOUS
  <2>2. line \in Seq(Q) /\ Q \subseteq P
    BY <1>1, <1>3, <2>1, LineRead DEF Texts
  <2> QED
    BY <2>2, SeqMonotonic
<1>5. rest \in Seq(P) /\ u = (line \o x) \o rest
  BY <1>1, <1>2, <1>3, LineRead
<1>6. PICK l \in Seq(P) : l = line \o x
  BY <1>4, Concat
<1>7. (d \o line) \o x = d \o l
  BY <1>1, <1>4, <1>6, Associative
<1>8. (d \o l) \o rest = d \o (l \o rest)
  BY <1>1, <1>5, Associative
<1> QED
  BY <1>2, <1>3, <1>5, <1>6, <1>7, <1>8 DEF WithLine

LEMMA EmptyIn == ASSUME NEW P PROVE <<>> \in Seq(P)
  OBVIOUS

LEMMA SubSeqType ==
  ASSUME NEW P, NEW s \in Seq(P), NEW i \in Nat \ {0}, NEW j \in Int, j <= Len(s)
  PROVE  SubSeq(s, i, j) \in Seq(P)
  OBVIOUS

LEMMA MeaningIs ==
  ASSUME NEW line \in Texts, line # <<>>
  PROVE  /\ ~ StartsTrailing(line) => Meaning(line) = Made(<<>>, WordsOf(line))
         /\ StartsTrailing(line) /\ PrefixEnd(line) > Len(line) => Meaning(line) = Empty
         /\ StartsTrailing(line) /\ PrefixEnd(line) <= Len(line)
              => /\ SubSeq(line, 2, PrefixEnd(line) - 1) \in Texts
                 /\ From(line, PrefixEnd(line) + 1) \in Texts
                 /\ Meaning(line) = Made(SubSeq(line, 2, PrefixEnd(line) - 1),
                                         WordsOf(From(line, PrefixEnd(line) + 1)))
<1>1. PICK P : P = Chars \ {"LF"} /\ line \in Seq(P) /\ Texts = Seq(P)
  BY DEF Texts
<1>2. PICK n \in Nat \ {0} : n = Len(line) /\ DOMAIN line = 1 .. n
  BY <1>1
<1>3. PICK at : at = {i \in DOMAIN line : line[i] = " "}
  OBVIOUS
<1>4. at = {i \in DOMAIN line : line[i] \in {" "}}
  BY <1>3
<1>5. PICK e : e = PrefixEnd(line)
  OBVIOUS
<1>6. e = IF at = {} THEN Len(line) + 1 ELSE Min(at)
  BY <1>4, <1>5, Zenon DEF PrefixEnd, Find
<1>7. /\ e \in 1 .. n + 1
      /\ \A i \in 1 .. n : i < e => line[i] \notin {" "}
  BY <1>1, <1>2, <1>5, FindIs DEF PrefixEnd
<1>8. PICK j \in 1 .. n + 1 : j = e
  BY <1>7
<1>9. e > n <=> at = {}
  <2>1. CASE at = {}
    BY <1>2, <1>6, <2>1
  <2>2. CASE at # {}
    <3>1. PICK i \in 1 .. n : line[i] = " "
      BY <1>2, <1>3, <2>2
    <3>2. ~ (i < e)
      BY <1>7, <3>1
    <3>3. e \in Nat
      BY <1>8
    <3>4. ~ (e > n)
      BY <3>2, <3>3
    <3> QED
      BY <2>2, <3>4
  <2> QED
    BY <2>1, <2>2
<1>10. StartsTrailing(line) <=> line[1] = ":"
  BY <1>1 DEF StartsTrailing
<1>11. Meaning(line) = CASE ~ (line[1] = ":") -> Made(<<>>, WordsOf(line))
                         [] line[1] = ":" /\ at = {} -> Empty
                         [] line[1] = ":" /\ at # {}
                              -> Made(SubSeq(line, 2, Min(at) - 1),
                                      WordsOf(From(line, Min(at) + 1)))
  BY <1>3, Zenon DEF Meaning
<1>12. PICK x, y, z : x = Made(<<>>, WordsOf(line)) /\ y = Empty
                      /\ z = Made(SubSeq(line, 2, Min(at) - 1), WordsOf(From(line, Min(at) + 1)))
  OBVIOUS
<1>13. Meaning(line) = CASE ~ (line[1] = ":") -> x
                         [] line[1] = ":" /\ at = {} -> y
                         [] line[1] = ":" /\ at # {} -> z
  BY <1>11, <1>12, Zenon
<1>14. /\ line[1] # ":" => Meaning(line) = x
       /\ line[1] = ":" /\ at = {} => Meaning(line) = y
       /\ line[1] = ":" /\ at # {} => Meaning(line) = z
  BY <1>13
<1>15. ASSUME at # {} PROVE Min(at) = e
  BY <1>6, <1>15
<1>16. SubSeq(line, 2, e - 1) \in Seq(P) /\ SubSeq(line, e + 1, n) \in Seq(P)
  <2>1. /\ e - 1 \in Int /\ e - 1 <= n /\ e + 1 \in Nat \ {0}
        /\ n \in Int /\ n <= n /\ 2 \in Nat \ {0}
    BY <1>8
  <2> QED
    BY <1>1, <1>2, <2>1, SubSeqType
<1>17. SubSeq(line, 2, e - 1) \in Texts /\ From(line, e + 1) \in Texts
  BY <1>1, <1>2, <1>16 DEF From
<1>18. ASSUME at # {} PROVE z = Made(SubSeq(line, 2, e - 1), WordsOf(From(line, e + 1)))
  BY <1>12, <1>15, <1>18, Zenon
<1>19. ASSUME ~ StartsTrailing(line) PROVE Meaning(line) = Made(<<>>, WordsOf(line))
  BY <1>10, <1>12, <1>14, <1>19
<1>20. ASSUME StartsTrailing(line), e > n PROVE Meaning(line) = Empty
  BY <1>9, <1>10, <1>12, <1>14, <1>20
<1>21. ASSUME StartsTrailing(line), e <= n
       PROVE  Meaning(line) = Made(SubSeq(line, 2, e - 1), WordsOf(From(line, e + 1)))
  <2>1. at # {}
    BY <1>9, <1>21, <1>8
  <2>2. Meaning(line) = z
    BY <1>10, <1>14, <1>21, <2>1
  <2> QED
    BY <1>18, <2>1, <2>2
<1> QED
  BY <1>2, <1>5, <1>17, <1>19, <1>20, <1>21, Zenon

-----------------------------------------------------------------------------
(* Nothing of a line is lost, and the messages are what the lines mean *)

Typed ==
  /\ buffer \in Seq(Chars) /\ unread \in Seq(Chars)
  /\ iss \in Texts
  /\ parsedMsg \in Message /\ fullMsg \in Seq(Message)
  /\ pc \in {"line", "cmd", "args", "trailing"}

\* r has been extracted of the body of a line, after the prefix.
Extracted(prefix, r) ==
  /\ Even(r) /\ WordsOf(r) \in Seq(Words)
  /\ Follows(r, iss)
  /\ parsedMsg = Made(prefix, WordsOf(r))
  /\ pc = "cmd" => r = <<>>
  /\ pc = "args" => Colons(WordsOf(r)) = {} /\ (WordsOf(r) # <<>> \/ iss = <<>>)
  /\ pc = "trailing" => Colons(WordsOf(r)) # {}

\* The line after b is being taken apart.
Reading(b, line, prefix, r) ==
  /\ Closed(b) /\ line # <<>>
  /\ fullMsg = Meanings(b)
  /\ Meaning(line) = Made(prefix, WordsOf(r \o iss))
  /\ Extracted(prefix, r)

LinesInv ==
  /\ Closed(unread)
  /\ \E done \in Seq(Chars) :
       /\ Closed(done) /\ buffer = done \o unread
       /\ pc = "line" => fullMsg = Meanings(done)
       /\ pc # "line" =>
            \E b \in Seq(Chars), line \in Texts, prefix \in Texts, r \in Texts :
               done = WithLine(b, line) /\ Reading(b, line, prefix, r)

LEMMA EmptyType == Empty \in Message
<1>1. PICK A : A = {w \in Words : Head(w) # ":"}
  OBVIOUS
<1>2. <<>> \in Texts /\ <<>> \in Seq(A) /\ <<>> \in Words \cup {<<>>}
  BY CharTypes, EmptyIn
<1>3. Message = [prefix : Texts, cmd : Words \cup {<<>>}, args : Seq(A),
                 trailing : Texts, trailing_sign : BOOLEAN]
  BY <1>1, Zenon DEF Message
<1> QED
  BY <1>2, <1>3 DEF Empty

LEMMA NoWordsType == WordsOf(<<>>) = <<>> /\ Even(<<>>) /\ <<>> \in Seq(Words)
<1>1. PICK z : z = <<>>
  OBVIOUS
<1>2. Starts(z) = {} /\ Stops(z) = {}
  BY <1>1 DEF Starts, Stops, Dark
<1>3. WordsOf(z) = WordsAs(z, z, z)
  BY <1>1, <1>2, OrderedEmpty, WordsOfIs
<1>4. WordsAs(z, z, z) = z
  BY <1>1 DEF WordsAs
<1>5. Even(z)
  BY <1>2 DEF Even
<1> QED
  BY <1>1, <1>3, <1>4, <1>5

LEMMA InitTyped == Init => Typed /\ LinesInv
<1> SUFFICES ASSUME Init PROVE Typed /\ LinesInv
  OBVIOUS
<1>1. PICK s \in BoundedSeq(Chars, MaxLength) : buffer = Append(s, "LF")
  BY DEF Init
<1>2. s \in Seq(Chars)
  BY <1>1 DEF BoundedSeq, SeqOf
<1>3. "LF" \in Chars
  BY DEF Chars
<1>4. PICK c \in Chars : c = "LF"
  BY <1>3
<1>5. buffer \in Seq(Chars) /\ buffer # <<>> /\ buffer[Len(buffer)] = "LF"
  <2>1. /\ Append(s, c) \in Seq(Chars) /\ Append(s, c) # <<>>
        /\ Len(Append(s, c)) = Len(s) + 1 /\ Append(s, c)[Len(s) + 1] = c
    BY <1>2, Append1
  <2> QED
    BY <1>1, <1>4, <2>1
<1>6. Typed
  <2>1. <<>> \in Seq(Message)
    BY EmptyIn
  <2> QED
    BY <1>5, <2>1, EmptyType, CharTypes, Zenon DEF Init, Typed
<1>7. PICK done \in Seq(Chars) : done = <<>>
  BY EmptyIn
<1>8. buffer = done \o unread
  <2>1. PICK P : P = Chars /\ buffer \in Seq(P)
    BY <1>5
  <2>2. <<>> \o buffer = buffer
    BY <2>1
  <2> QED
    BY <1>7, <2>2 DEF Init
<1>9. LinesInv
  BY <1>5, <1>7, <1>8, MeaningsOfNothing DEF Init, LinesInv, Closed
<1> QED
  BY <1>6, <1>9

WithPrefix(m, p) == [m EXCEPT !.prefix = p]

LEMMA EmptyIs ==
  /\ Empty = Made(<<>>, <<>>)
  /\ \A p : WithPrefix(Empty, p) = Made(p, <<>>)
<1>1. Empty = Parts(<<>>, <<>>, <<>>, <<>>, No)
  BY Zenon DEF Empty, Parts, No
<1>2. PICK z, n, m : z = <<>> /\ n = No /\ m = Empty /\ m = Parts(z, z, z, z, n)
  BY <1>1, Zenon
<1>3. \A p : WithPrefix(m, p) = Parts(p, z, z, z, n)
  BY <1>2 DEF WithPrefix, Parts
<1> QED
  BY <1>1, <1>2, <1>3, MadeOfNothing, Zenon

Arguments == {w \in Words : Head(w) # ":"}

LEMMA MessageIs ==
  Message = [prefix : Texts, cmd : Words \cup {<<>>}, args : Seq(Arguments),
             trailing : Texts, trailing_sign : BOOLEAN]
  BY Zenon DEF Message, Arguments

LEMMA MessageWith ==
  ASSUME NEW m \in Message
  PROVE  /\ \A p \in Texts : WithPrefix(m, p) \in Message
         /\ \A v \in Words \cup {<<>>} : SetCmd(m, v) \in Message
         /\ \A w \in Words : Head(w) # ":" => AddArg(m, w) \in Message
         /\ \A v \in Texts : SetTrailing(m, v) \in Message
         /\ \A w \in Texts : AddTrailing(m, w) \in Message
<1>1. PICK T, W, A, B : /\ T = Texts /\ W = Words \cup {<<>>} /\ A = Seq(Arguments)
                        /\ B = BOOLEAN
  OBVIOUS
<1>2. Message = [prefix : T, cmd : W, args : A, trailing : T, trailing_sign : B]
  BY <1>1, MessageIs, Zenon
<1>3. \A p \in T : WithPrefix(m, p) \in Message
  BY <1>2 DEF WithPrefix
<1>4. \A v \in W : SetCmd(m, v) \in Message
  BY <1>2 DEF SetCmd
<1>5. ASSUME NEW w \in Words, Head(w) # ":" PROVE AddArg(m, w) \in Message
  <2>1. PICK C : C = Arguments
    OBVIOUS
  <2>2. w \in C
    BY <1>5, <2>1 DEF Arguments
  <2>3. m.args \in Seq(C)
    BY <1>1, <1>2, <2>1
  <2>4. Append(m.args, w) \in Seq(C)
    BY <2>2, <2>3, Append1
  <2>5. \A v \in A : [m EXCEPT !.args = v] \in Message
    BY <1>2
  <2> QED
    BY <1>1, <2>1, <2>4, <2>5, Zenon DEF AddArg
<1>6. \A v \in T : SetTrailing(m, v) \in Message
  <2>1. ASSUME NEW v \in T, NEW b \in B
        PROVE  [m EXCEPT !.trailing_sign = b, !.trailing = v] \in Message
    BY <1>2
  <2>2. PICK b \in B : b = Yes
    BY <1>1 DEF Yes
  <2> QED
    BY <2>1, <2>2, Zenon DEF SetTrailing, Yes
<1>7. ASSUME NEW w \in T PROVE AddTrailing(m, w) \in Message
  <2>1. m.trailing \in T
    BY <1>2
  <2>2. Joined(m.trailing, w) \in T
    BY <1>1, <2>1, JoinedConcat
  <2>3. \A v \in T : [m EXCEPT !.trailing = v] \in Message
    BY <1>2
  <2> QED
    BY <2>2, <2>3, Zenon DEF AddTrailing
<1> QED
  BY <1>1, <1>3, <1>4, <1>5, <1>6, <1>7

LEMMA MessageAppend ==
  ASSUME NEW ms \in Seq(Message), NEW m \in Message PROVE Append(ms, m) \in Seq(Message)
<1>1. PICK P : P = Message
  OBVIOUS
<1> QED
  BY <1>1, Append1

LEMMA GetsLineTyped ==
  ASSUME Typed, LinesInv, NEW line, GetsLine(line)
  PROVE  /\ line \in Texts /\ unread' \in Seq(Chars) /\ Closed(unread')
         /\ buffer' = buffer /\ pc = "line"
         /\ \E done \in Seq(Chars), d \in Seq(Chars) :
              /\ Closed(done) /\ fullMsg = Meanings(done)
              /\ d = WithLine(done, line) /\ Closed(d)
              /\ buffer = d \o unread'
<1>1. unread \in Seq(Chars) /\ Closed(unread) /\ unread # <<>>
      /\ pc = "line" /\ line = Line(unread) /\ unread' = AfterLine(unread) /\ buffer' = buffer
  BY DEF Typed, LinesInv, GetsLine
<1>2. line \in Texts /\ unread' \in Seq(Chars) /\ Closed(unread')
  BY <1>1, LineRead
<1>3. PICK done \in Seq(Chars) :
        Closed(done) /\ buffer = done \o unread /\ fullMsg = Meanings(done)
  BY <1>1 DEF LinesInv
<1>4. PICK d : d = WithLine(done, line)
  OBVIOUS
<1>5. d \in Seq(Chars) /\ Closed(d)
  BY <1>2, <1>4, WithLineIs
<1>6. done \o unread = WithLine(done, Line(unread)) \o AfterLine(unread)
  BY <1>1, LineReadAfter
<1> QED
  BY <1>1, <1>2, <1>3, <1>4, <1>5, <1>6

LEMMA SkipStep ==
  ASSUME Typed, LinesInv, SkipEmptyLine PROVE Typed' /\ LinesInv'
<1>1. GetsLine(<<>>) /\ UNCHANGED <<iss, parsedMsg, fullMsg, pc>>
  BY DEF SkipEmptyLine
<1>2. PICK done \in Seq(Chars), d \in Seq(Chars) :
        /\ Closed(done) /\ fullMsg = Meanings(done)
        /\ d = WithLine(done, <<>>) /\ Closed(d)
        /\ buffer = d \o unread'
  BY <1>1, GetsLineTyped
<1>3. /\ <<>> \in Texts /\ unread' \in Seq(Chars) /\ Closed(unread')
      /\ buffer' = buffer /\ pc = "line"
  BY <1>1, GetsLineTyped
<1>4. Typed'
  BY <1>1, <1>3 DEF Typed
<1>5. Meanings(d) = Meanings(done)
  BY <1>2, <1>3, MeaningsMore
<1>6. LinesInv'
  BY <1>1, <1>2, <1>3, <1>5 DEF LinesInv
<1> QED
  BY <1>4, <1>6

LEMMA ReturnEmptyStep ==
  ASSUME Typed, LinesInv, ReturnEmpty PROVE Typed' /\ LinesInv'
<1>1. PICK line : /\ GetsLine(line)
                  /\ StartsTrailing(line) /\ PrefixEnd(line) > Len(line)
                  /\ fullMsg' = Append(fullMsg, Empty)
                  /\ UNCHANGED <<iss, parsedMsg, pc>>
  BY DEF ReturnEmpty
<1>2. PICK done \in Seq(Chars), d \in Seq(Chars) :
        /\ Closed(done) /\ fullMsg = Meanings(done)
        /\ d = WithLine(done, line) /\ Closed(d)
        /\ buffer = d \o unread'
  BY <1>1, GetsLineTyped
<1>3. /\ line \in Texts /\ unread' \in Seq(Chars) /\ Closed(unread')
      /\ buffer' = buffer /\ pc = "line"
  BY <1>1, GetsLineTyped
<1>4. fullMsg' \in Seq(Message)
  BY <1>1, EmptyType, MessageAppend DEF Typed
<1>5. Typed'
  BY <1>1, <1>3, <1>4 DEF Typed
<1>6. line # <<>>
  BY <1>1 DEF StartsTrailing
<1>7. Meanings(d) = Append(Meanings(done), Empty)
  BY <1>1, <1>2, <1>3, <1>6, MeaningIs, MeaningsMore
<1>8. LinesInv'
  BY <1>1, <1>2, <1>3, <1>7 DEF LinesInv
<1> QED
  BY <1>5, <1>8

LEMMA EmptyConcat == ASSUME NEW s \in Texts PROVE <<>> \o s = s /\ s \o <<>> = s
<1>1. PICK P : P = Chars \ {"LF"} /\ s \in Seq(P)
  BY DEF Texts
<1> QED
  BY <1>1

LEMMA BeginStep ==
  ASSUME Typed, LinesInv, BeginLine PROVE Typed' /\ LinesInv'
<1>1. PICK line :
        /\ GetsLine(line)
        /\ line # <<>>
        /\ \/ /\ StartsTrailing(line) /\ PrefixEnd(line) <= Len(line)
              /\ parsedMsg' = WithPrefix(Empty, SubSeq(line, 2, PrefixEnd(line) - 1))
              /\ iss' = From(line, PrefixEnd(line) + 1)
           \/ /\ ~ StartsTrailing(line)
              /\ parsedMsg' = Empty
              /\ iss' = line
        /\ pc' = "cmd"
        /\ UNCHANGED fullMsg
  BY DEF BeginLine, WithPrefix
<1>2. PICK done \in Seq(Chars), d \in Seq(Chars) :
        /\ Closed(done) /\ fullMsg = Meanings(done)
        /\ d = WithLine(done, line) /\ Closed(d)
        /\ buffer = d \o unread'
  BY <1>1, GetsLineTyped
<1>3. /\ line \in Texts /\ unread' \in Seq(Chars) /\ Closed(unread')
      /\ buffer' = buffer /\ pc = "line"
  BY <1>1, GetsLineTyped
<1>4. PICK prefix \in Texts, body \in Texts :
        /\ Meaning(line) = Made(prefix, WordsOf(body))
        /\ iss' = body
        /\ parsedMsg' = Made(prefix, <<>>) /\ parsedMsg' \in Message
  <2>1. CASE StartsTrailing(line)
    <3>1. PICK p, q : /\ p = SubSeq(line, 2, PrefixEnd(line) - 1)
                      /\ q = From(line, PrefixEnd(line) + 1)
      OBVIOUS
    <3>2. p \in Texts /\ q \in Texts /\ Meaning(line) = Made(p, WordsOf(q))
      BY <1>1, <1>3, <2>1, <3>1, MeaningIs
    <3>3. parsedMsg' = WithPrefix(Empty, p) /\ iss' = q
      BY <1>1, <2>1, <3>1
    <3>4. parsedMsg' \in Message
      BY <3>2, <3>3, EmptyType, MessageWith
    <3> QED
      BY <3>2, <3>3, <3>4, EmptyIs
  <2>2. CASE ~ StartsTrailing(line)
    <3>1. PICK p \in Texts : p = <<>>
      BY CharTypes
    <3>2. Meaning(line) = Made(p, WordsOf(line))
      BY <1>1, <1>3, <2>2, <3>1, MeaningIs
    <3>3. parsedMsg' = Empty /\ iss' = line
      BY <1>1, <2>2
    <3> QED
      BY <1>3, <3>1, <3>2, <3>3, EmptyType, EmptyIs
  <2> QED
    BY <2>1, <2>2
<1>5. Typed'
  BY <1>1, <1>3, <1>4 DEF Typed
<1>6. PICK r \in Texts : r = <<>>
  BY CharTypes
<1>7. WordsOf(r) = <<>> /\ Even(r) /\ WordsOf(r) \in Seq(Words)
  BY <1>6, NoWordsType
<1>8. r \o body = body
  BY <1>6, EmptyConcat
<1>9. Extracted(prefix, r)'
  BY <1>1, <1>4, <1>6, <1>7 DEF Extracted, Follows
<1>10. Reading(done, line, prefix, r)'
  BY <1>1, <1>2, <1>4, <1>8, <1>9 DEF Reading
<1>11. LinesInv'
  BY <1>1, <1>2, <1>3, <1>10 DEF LinesInv
<1> QED
  BY <1>5, <1>11

\* What the steps inside a line have in common.
LEMMA ReadingIs ==
  ASSUME Typed, LinesInv, pc # "line"
  PROVE  /\ Closed(unread) /\ unread \in Seq(Chars) /\ iss \in Texts /\ parsedMsg \in Message
         /\ \E d \in Seq(Chars), b \in Seq(Chars), line \in Texts, prefix \in Texts,
               r \in Texts :
              /\ Closed(d) /\ buffer = d \o unread
              /\ d = WithLine(b, line) /\ Reading(b, line, prefix, r)
  BY DEF Typed, LinesInv

LEMMA ReadingStays ==
  ASSUME NEW d \in Seq(Chars), NEW b \in Seq(Chars), NEW line \in Texts,
         NEW prefix \in Texts, NEW r \in Texts, NEW t \in Texts,
         Typed, LinesInv, Closed(d), buffer = d \o unread, d = WithLine(b, line),
         Reading(b, line, prefix, r), UNCHANGED <<buffer, unread, fullMsg>>,
         pc' \in {"args", "trailing"}, iss' \in Texts, parsedMsg' \in Message,
         t \o iss' = r \o iss, Extracted(prefix, t)'
  PROVE  Typed' /\ LinesInv'
<1>1. Typed'
  BY DEF Typed
<1>2. Reading(b, line, prefix, t)'
  BY DEF Reading
<1>3. pc' # "line"
  OBVIOUS
<1>4. Closed(unread')
  BY DEF LinesInv
<1>5. buffer' = d \o unread'
  OBVIOUS
<1>6. LinesInv'
  BY <1>2, <1>3, <1>4, <1>5 DEF LinesInv
<1> QED
  BY <1>1, <1>6

LEMMA ReadCmdStep ==
  ASSUME Typed, LinesInv, ReadCmd PROVE Typed' /\ LinesInv'
<1>1. /\ pc = "cmd" /\ parsedMsg' = SetCmd(parsedMsg, Word(iss))
      /\ iss' = AfterWord(iss) /\ pc' = "args" /\ UNCHANGED <<buffer, unread, fullMsg>>
  BY DEF ReadCmd, SetCmd
<1>2. PICK d \in Seq(Chars), b \in Seq(Chars), line \in Texts, prefix \in Texts, r \in Texts :
        /\ Closed(d) /\ buffer = d \o unread
        /\ d = WithLine(b, line) /\ Reading(b, line, prefix, r)
  BY <1>1, ReadingIs
<1>3. iss \in Texts /\ parsedMsg \in Message
  BY DEF Typed
<1>4. /\ Even(r) /\ WordsOf(r) \in Seq(Words) /\ Follows(r, iss)
      /\ parsedMsg = Made(prefix, WordsOf(r)) /\ r = <<>>
  BY <1>1, <1>2 DEF Reading, Extracted
<1>5. WordsOf(r) = <<>>
  BY <1>4, NoWordsType
<1>6. CASE HasWord(iss)
  <2>1. PICK w : w = Word(iss)
    OBVIOUS
  <2>2. PICK t \in Texts : /\ w \in Words /\ iss' \in Texts
                           /\ t \o iss' = r \o iss
                           /\ Even(t) /\ WordsOf(t) = Append(WordsOf(r), w)
                           /\ Follows(t, iss')
    BY <1>1, <1>3, <1>4, <1>6, <2>1, ExtractionStep
  <2>3. parsedMsg' = Made(prefix, WordsOf(t))
    BY <1>1, <1>4, <1>5, <2>1, <2>2, MadeOfOne
  <2>4. parsedMsg' \in Message
    BY <1>1, <1>3, <2>1, <2>2, MessageWith
  <2>5. Colons(WordsOf(t)) = {}
    <3>1. <<>> \in Seq(Words) /\ Colons(<<>>) = {}
      BY NoWordsType DEF Colons
    <3> QED
      BY <1>5, <2>2, <3>1, ColonsMore
  <2>6. WordsOf(t) \in Seq(Words) /\ WordsOf(t) # <<>>
    BY <1>4, <2>2, Append1
  <2>7. Extracted(prefix, t)'
    BY <1>1, <2>2, <2>3, <2>5, <2>6 DEF Extracted
  <2> QED
    BY <1>1, <1>2, <2>2, <2>4, <2>7, ReadingStays
<1>7. CASE ~ HasWord(iss)
  <2>1. BlankText(iss) /\ Word(iss) = <<>> /\ iss' = <<>>
    BY <1>1, <1>3, <1>7, NoWord
  <2>2. PICK t \in Texts : t = r \o iss
    BY <1>3, TextConcat
  <2>3. Even(t) /\ WordsOf(t) = <<>>
    BY <1>3, <1>4, <1>5, <2>1, <2>2, WordsOfBlank
  <2>4. t \o iss' = r \o iss
    BY <2>1, <2>2, EmptyConcat
  <2>5. parsedMsg' = Made(prefix, <<>>)
    <3>1. PICK z, n, m : z = <<>> /\ n = No /\ m = parsedMsg /\ m = Parts(prefix, z, z, z, n)
      BY <1>4, <1>5, MadeOfNothing, Zenon
    <3>2. SetCmd(m, z) = Parts(prefix, z, z, z, n)
      BY <3>1, WithCmd
    <3> QED
      BY <1>1, <2>1, <3>1, <3>2, MadeOfNothing, Zenon
  <2>6. parsedMsg' \in Message
    BY <1>1, <1>3, <2>1, MessageWith
  <2>7. Colons(<<>>) = {}
    BY DEF Colons
  <2>8. Extracted(prefix, t)'
    BY <1>1, <1>4, <1>5, <2>1, <2>3, <2>5, <2>7 DEF Extracted, Follows
  <2> QED
    BY <1>1, <1>2, <2>1, <2>4, <2>6, <2>8, CharTypes, ReadingStays
<1> QED
  BY <1>6, <1>7

\* The extraction of a word in the middle of a line.
LEMMA ExtractsIs ==
  ASSUME Typed, LinesInv, NEW w, Extracts(w), pc # "line",
         NEW r \in Texts, NEW prefix, Extracted(prefix, r)
  PROVE  /\ w \in Words /\ iss' \in Texts /\ UNCHANGED <<buffer, unread, fullMsg>>
         /\ WordsOf(r) \in Seq(Words) /\ Append(WordsOf(r), w) \in Seq(Words)
         /\ Append(WordsOf(r), w) # <<>>
         /\ \E t \in Texts : /\ t \o iss' = r \o iss
                             /\ Even(t) /\ WordsOf(t) = Append(WordsOf(r), w)
                             /\ Follows(t, iss')
<1>1. /\ HasWord(iss) /\ w = Word(iss) /\ iss' = AfterWord(iss)
      /\ UNCHANGED <<buffer, unread, fullMsg>>
  BY DEF Extracts
<1>2. iss \in Texts /\ Even(r) /\ Follows(r, iss) /\ WordsOf(r) \in Seq(Words)
  BY DEF Typed, Extracted
<1>3. w \in Words
  BY <1>1, <1>2, ExtractionStep
<1>4. Append(WordsOf(r), w) \in Seq(Words) /\ Append(WordsOf(r), w) # <<>>
  BY <1>2, <1>3, Append1
<1> QED
  BY <1>1, <1>2, <1>4, ExtractionStep

LEMMA SomeLeft == ASSUME NEW s \in Texts, HasWord(s) PROVE s # <<>>
<1> SUFFICES ASSUME s = <<>> PROVE FALSE
  OBVIOUS
<1>1. PICK gap \in Texts, x \in Words, rest \in Texts : s = (gap \o x) \o rest
  BY Extraction
<1>2. PICK g \in Texts : g = gap \o x /\ Len(g) = Len(gap) + Len(x)
  BY TextConcat, WordIs
<1>3. Len(s) = Len(g) + Len(rest)
  BY <1>1, <1>2, TextConcat
<1>4. Len(gap) \in Nat /\ Len(rest) \in Nat /\ Len(x) \in Nat \ {0} /\ Len(s) = 0
  BY TextIs, WordIs
<1> QED
  BY <1>2, <1>3, <1>4

LEMMA ReadArgStep ==
  ASSUME Typed, LinesInv, ReadArg PROVE Typed' /\ LinesInv'
<1>1. PICK w : /\ pc = "args" /\ Extracts(w) /\ ~ StartsTrailing(w)
               /\ parsedMsg' = AddArg(parsedMsg, w) /\ pc' = pc
  BY DEF ReadArg, AddArg
<1>2. PICK d \in Seq(Chars), b \in Seq(Chars), line \in Texts, prefix \in Texts, r \in Texts :
        /\ Closed(d) /\ buffer = d \o unread
        /\ d = WithLine(b, line) /\ Reading(b, line, prefix, r)
  BY <1>1, ReadingIs
<1>3. Extracted(prefix, r) /\ parsedMsg \in Message
  BY <1>2 DEF Reading, Typed
<1>4. PICK t \in Texts : /\ w \in Words /\ iss' \in Texts /\ UNCHANGED <<buffer, unread, fullMsg>>
                         /\ WordsOf(r) \in Seq(Words)
                         /\ t \o iss' = r \o iss
                         /\ Even(t) /\ WordsOf(t) = Append(WordsOf(r), w)
                         /\ Follows(t, iss') /\ WordsOf(t) \in Seq(Words) /\ WordsOf(t) # <<>>
  BY <1>1, <1>3, ExtractsIs
<1>5. w[1] # ":" /\ Head(w) # ":"
  BY <1>1, <1>4, WordIs
<1>6. Colons(WordsOf(r)) = {} /\ WordsOf(r) # <<>>
  BY <1>1, <1>3, SomeLeft DEF Extracted, Extracts, Typed
<1>7. Colons(WordsOf(t)) = {}
  BY <1>4, <1>5, <1>6, ColonsMore
<1>8. parsedMsg' = Made(prefix, WordsOf(t))
  BY <1>1, <1>3, <1>4, <1>5, <1>6, MadeWithArgument DEF Extracted
<1>9. parsedMsg' \in Message
  BY <1>1, <1>3, <1>4, <1>5, MessageWith
<1>10. Extracted(prefix, t)'
  BY <1>1, <1>4, <1>7, <1>8 DEF Extracted
<1> QED
  BY <1>1, <1>2, <1>4, <1>9, <1>10, ReadingStays

LEMMA BeginTrailingStep ==
  ASSUME Typed, LinesInv, BeginTrailing PROVE Typed' /\ LinesInv'
<1>1. PICK w : /\ pc = "args" /\ Extracts(w) /\ StartsTrailing(w)
               /\ parsedMsg' = SetTrailing(parsedMsg, Tail(w)) /\ pc' = "trailing"
  BY DEF BeginTrailing, SetTrailing
<1>2. PICK d \in Seq(Chars), b \in Seq(Chars), line \in Texts, prefix \in Texts, r \in Texts :
        /\ Closed(d) /\ buffer = d \o unread
        /\ d = WithLine(b, line) /\ Reading(b, line, prefix, r)
  BY <1>1, ReadingIs
<1>3. Extracted(prefix, r) /\ parsedMsg \in Message
  BY <1>2 DEF Reading, Typed
<1>4. PICK t \in Texts : /\ w \in Words /\ iss' \in Texts /\ UNCHANGED <<buffer, unread, fullMsg>>
                         /\ WordsOf(r) \in Seq(Words)
                         /\ t \o iss' = r \o iss
                         /\ Even(t) /\ WordsOf(t) = Append(WordsOf(r), w)
                         /\ Follows(t, iss') /\ WordsOf(t) \in Seq(Words) /\ WordsOf(t) # <<>>
  BY <1>1, <1>3, ExtractsIs
<1>5. w[1] = ":" /\ Tail(w) \in Texts
  BY <1>1, <1>4, WordIs
<1>6. Colons(WordsOf(r)) = {} /\ WordsOf(r) # <<>>
  BY <1>1, <1>3, SomeLeft DEF Extracted, Extracts, Typed
<1>7. Colons(WordsOf(t)) # {}
  <2>1. Colons(WordsOf(t)) = Colons(WordsOf(r)) \cup {Len(WordsOf(r)) + 1}
    BY <1>4, <1>5, <1>6, ColonsMore
  <2> QED
    BY <2>1
<1>8. parsedMsg' = Made(prefix, WordsOf(t))
  BY <1>1, <1>3, <1>4, <1>5, <1>6, MadeWithColon DEF Extracted
<1>9. parsedMsg' \in Message
  BY <1>1, <1>3, <1>5, MessageWith
<1>10. Extracted(prefix, t)'
  BY <1>1, <1>4, <1>7, <1>8 DEF Extracted
<1> QED
  BY <1>1, <1>2, <1>4, <1>9, <1>10, ReadingStays

LEMMA ReadTrailingStep ==
  ASSUME Typed, LinesInv, ReadTrailing PROVE Typed' /\ LinesInv'
<1>1. PICK w : /\ pc = "trailing" /\ Extracts(w)
               /\ parsedMsg' = AddTrailing(parsedMsg, w) /\ pc' = pc
  BY DEF ReadTrailing, AddTrailing
<1>2. PICK d \in Seq(Chars), b \in Seq(Chars), line \in Texts, prefix \in Texts, r \in Texts :
        /\ Closed(d) /\ buffer = d \o unread
        /\ d = WithLine(b, line) /\ Reading(b, line, prefix, r)
  BY <1>1, ReadingIs
<1>3. Extracted(prefix, r) /\ parsedMsg \in Message
  BY <1>2 DEF Reading, Typed
<1>4. PICK t \in Texts : /\ w \in Words /\ iss' \in Texts /\ UNCHANGED <<buffer, unread, fullMsg>>
                         /\ WordsOf(r) \in Seq(Words)
                         /\ t \o iss' = r \o iss
                         /\ Even(t) /\ WordsOf(t) = Append(WordsOf(r), w)
                         /\ Follows(t, iss') /\ WordsOf(t) \in Seq(Words) /\ WordsOf(t) # <<>>
  BY <1>1, <1>3, ExtractsIs
<1>5. Colons(WordsOf(r)) # {}
  BY <1>1, <1>3 DEF Extracted
<1>6. Colons(WordsOf(t)) # {}
  <2>1. WordsOf(r) # <<>>
    <3>1. Colons(<<>>) = {}
      BY DEF Colons
    <3> QED
      BY <1>5, <3>1
  <2>2. \/ Colons(WordsOf(t)) = Colons(WordsOf(r))
        \/ Colons(WordsOf(t)) = Colons(WordsOf(r)) \cup {Len(WordsOf(r)) + 1}
    BY <1>4, <2>1, ColonsMore
  <2> QED
    BY <1>5, <2>2
<1>7. parsedMsg' = Made(prefix, WordsOf(t))
  BY <1>1, <1>3, <1>4, <1>5, MadeWithMore DEF Extracted
<1>8. parsedMsg' \in Message
  BY <1>1, <1>3, <1>4, WordIs, MessageWith
<1>9. Extracted(prefix, t)'
  BY <1>1, <1>4, <1>6, <1>7 DEF Extracted
<1> QED
  BY <1>1, <1>2, <1>4, <1>8, <1>9, ReadingStays

LEMMA EndStep ==
  ASSUME Typed, LinesInv, EndLine PROVE Typed' /\ LinesInv'
<1>1. /\ pc \in {"args", "trailing"} /\ ~ HasWord(iss)
      /\ fullMsg' = Append(fullMsg, parsedMsg) /\ pc' = "line"
      /\ UNCHANGED <<buffer, unread, iss, parsedMsg>>
  BY DEF EndLine
<1>2. PICK d \in Seq(Chars), b \in Seq(Chars), line \in Texts, prefix \in Texts, r \in Texts :
        /\ Closed(d) /\ buffer = d \o unread
        /\ d = WithLine(b, line) /\ Reading(b, line, prefix, r)
  BY <1>1, ReadingIs
<1>3. iss \in Texts /\ Even(r) /\ parsedMsg = Made(prefix, WordsOf(r))
  BY <1>2 DEF Typed, Reading, Extracted
<1>4. BlankText(iss)
  BY <1>1, <1>3, NoWord
<1>5. WordsOf(r \o iss) = WordsOf(r)
  BY <1>3, <1>4, WordsOfBlank
<1>6. Meaning(line) = parsedMsg /\ Closed(b) /\ line # <<>> /\ fullMsg = Meanings(b)
  BY <1>2, <1>3, <1>5 DEF Reading
<1>7. fullMsg' = Meanings(d)
  BY <1>1, <1>2, <1>6, MeaningsMore
<1>8. fullMsg' \in Seq(Message)
  BY <1>1, MessageAppend DEF Typed
<1>9. Typed'
  BY <1>1, <1>8 DEF Typed
<1>10. LinesInv'
  BY <1>1, <1>2, <1>7 DEF LinesInv
<1> QED
  BY <1>9, <1>10

LEMMA ParserStep == Typed /\ LinesInv /\ [Next]_vars => Typed' /\ LinesInv'
<1>1. ASSUME Typed, LinesInv, Next PROVE Typed' /\ LinesInv'
  BY <1>1, SkipStep, ReturnEmptyStep, BeginStep, ReadCmdStep, ReadArgStep,
     BeginTrailingStep, ReadTrailingStep, EndStep DEF Next
<1>2. ASSUME Typed, LinesInv, UNCHANGED vars PROVE Typed' /\ LinesInv'
  <2>1. UNCHANGED <<buffer, unread, iss, parsedMsg, fullMsg, pc>>
    BY <1>2 DEF vars
  <2>2. Typed'
    BY <1>2, <2>1 DEF Typed
  <2>3. LinesInv'
    BY <1>2, <2>1 DEF LinesInv, Reading, Extracted
  <2> QED
    BY <2>2, <2>3
<1> QED
  BY <1>1, <1>2

LEMMA ParserInvariant == Spec => [](Typed /\ LinesInv)
  BY InitTyped, ParserStep, PTL DEF Spec

\* Every line that is read is executed as what it means, once and in its place,
\* however many blanks, colons and carriage returns it has: the messages that
\* parseIncomingData hands over are those of the definition.
THEOREM ParserIsRight == Spec => []ParsesAsDefined
<1>1. Typed /\ LinesInv => ParsesAsDefined
  <2> SUFFICES ASSUME Typed, LinesInv, pc = "line", unread = <<>>
               PROVE  fullMsg = Meanings(buffer)
    BY DEF ParsesAsDefined, Parsed
  <2>1. PICK done \in Seq(Chars) : buffer = done \o unread /\ fullMsg = Meanings(done)
    BY DEF LinesInv
  <2>2. done \o <<>> = done
    <3>1. PICK P : P = Chars /\ done \in Seq(P)
      OBVIOUS
    <3> QED
      BY <3>1
  <2> QED
    BY <2>1, <2>2
<1> QED
  BY <1>1, ParserInvariant, PTL

LEMMA ReverseIs ==
  ASSUME NEW P, NEW s \in Seq(P)
  PROVE  /\ Reverse(s) \in Seq(P) /\ Len(Reverse(s)) = Len(s)
         /\ \A i \in 1 .. Len(s) : Reverse(s)[i] = s[Len(s) - i + 1]
<1>1. PICK n \in Nat : n = Len(s)
  OBVIOUS
<1>2. ASSUME NEW i \in 1 .. n PROVE s[n - i + 1] \in P
  <2>1. n - i + 1 \in 1 .. n
    OBVIOUS
  <2> QED
    BY <1>1, <2>1
<1>3. Reverse(s) = [i \in 1 .. n |-> s[n - i + 1]]
  BY <1>1 DEF Reverse
<1> QED
  BY <1>1, <1>2, <1>3

LEMMA SuffixOf ==
  ASSUME NEW P, NEW s \in Seq(P), NEW t \in Seq(P) PROVE IsSuffix(t, s \o t)
<1>1. PICK u \in Seq(P) : u = s \o t
  BY Concat
<1>2. PICK n \in Nat, m \in Nat : n = Len(s) /\ m = Len(t)
  OBVIOUS
<1>3. Len(u) = n + m /\ \A i \in 1 .. m : u[n + i] = t[i]
  BY <1>1, <1>2, Concat
<1>4. PICK x, y : x = Reverse(t) /\ y = Reverse(u)
  OBVIOUS
<1>5. /\ x \in Seq(P) /\ Len(x) = m
      /\ \A i \in 1 .. m : x[i] = t[m - i + 1]
  BY <1>2, <1>4, ReverseIs
<1>6. /\ y \in Seq(P) /\ Len(y) = n + m
      /\ \A i \in 1 .. n + m : y[i] = u[n + m - i + 1]
  BY <1>3, <1>4, ReverseIs
<1>7. ASSUME NEW i \in 1 .. m PROVE y[i] = x[i]
  <2>1. PICK j \in 1 .. m : j = m - i + 1 /\ n + m - i + 1 = n + j
    <3>1. m - i + 1 \in 1 .. m /\ n + m - i + 1 = n + (m - i + 1)
      OBVIOUS
    <3> QED
      BY <3>1
  <2>2. i \in 1 .. n + m
    OBVIOUS
  <2> QED
    BY <1>3, <1>5, <1>6, <2>1, <2>2
<1>8. SubSeq(y, 1, Len(x)) = x
  <2>1. SubSeq(y, 1, m) \in Seq(P) /\ Len(SubSeq(y, 1, m)) = m
        /\ \A i \in 1 .. m : SubSeq(y, 1, m)[i] = y[i]
    BY <1>6
  <2> QED
    BY <1>5, <1>7, <2>1, SameSequence
<1>9. IsPrefix(x, y)
  <2>1. Len(x) <= Len(y)
    BY <1>5, <1>6
  <2> QED
    BY <1>8, <2>1 DEF IsPrefix
<1> QED
  BY <1>1, <1>4, <1>9 DEF IsSuffix

\* The words handed to the handlers are never empty, have no blank in them and,
\* as arguments, no colon in front; what is still unread is the end of what the
\* client sent.
THEOREM ParserTypeCorrect == Spec => []ParserTypeOK
<1>1. Typed /\ LinesInv => ParserTypeOK
  <2> SUFFICES ASSUME Typed, LinesInv PROVE IsSuffix(unread, buffer)
    BY DEF Typed, ParserTypeOK
  <2>1. PICK done \in Seq(Chars) : buffer = done \o unread
    BY DEF LinesInv
  <2>2. unread \in Seq(Chars)
    BY DEF Typed
  <2> QED
    BY <2>1, <2>2, SuffixOf
<1> QED
  BY <1>1, ParserInvariant, PTL

-----------------------------------------------------------------------------
(* Every text has words, and every buffer is made of lines *)

Fine(s) == Even(s) /\ WordsOf(s) \in Seq(Words)

LEMMA ShorterAfterWord ==
  ASSUME NEW s \in Texts, HasWord(s)
  PROVE  /\ Len(s) \in Nat /\ Len(AfterWord(s)) \in Nat /\ Len(AfterWord(s)) < Len(s)
         /\ AfterWord(s) \in Texts
<1>1. PICK gap \in Texts, w \in Words, rest \in Texts :
        /\ s = (gap \o w) \o rest
        /\ w = Word(s) /\ rest = AfterWord(s)
        /\ BlankText(gap) /\ (gap = <<>> => s[1] \notin Blanks)
        /\ (rest = <<>> \/ rest[1] \in Blanks)
  BY Extraction
<1>2. w \in Texts /\ Len(w) \in Nat \ {0}
  BY WordIs
<1>3. PICK g \in Texts : g = gap \o w
  BY <1>2, TextConcat
<1>4. Len(g) = Len(gap) + Len(w) /\ Len(gap) \in Nat
  BY <1>2, <1>3, TextConcat
<1>5. Len(s) = Len(g) + Len(rest) /\ Len(rest) \in Nat
  BY <1>1, <1>3, TextConcat
<1> QED
  BY <1>1, <1>2, <1>4, <1>5

LEMMA AllFine == \A s \in Texts : Fine(s)
<1> DEFINE Holds(r, s, n) == Fine(r) /\ Follows(r, s) /\ Len(s) <= n => Fine(r \o s)
           N == {n \in Nat : \A r \in Texts, s \in Texts : Holds(r, s, n)}
<1>1. 0 \in N
  <2>1. ASSUME NEW r \in Texts, NEW s \in Texts, Fine(r), Len(s) <= 0 PROVE Fine(r \o s)
    <3>1. s = <<>>
      BY <2>1, TextIs
    <3>2. r \o s = r
      BY <3>1, EmptyConcat
    <3> QED
      BY <2>1, <3>2
  <2> QED
    BY <2>1
<1>2. ASSUME NEW n \in N PROVE n + 1 \in N
  <2>1. ASSUME NEW r \in Texts, NEW s \in Texts, Fine(r), Follows(r, s), Len(s) <= n + 1
        PROVE  Fine(r \o s)
    <3>1. CASE HasWord(s)
      <4>1. PICK rest \in Texts : rest = AfterWord(s) /\ Len(rest) <= n
        BY <2>1, <3>1, ShorterAfterWord
      <4>2. PICK w \in Words : w = Word(s)
        BY <2>1, <3>1, ExtractionStep DEF Fine
      <4>3. PICK t \in Texts : /\ t \o rest = r \o s
                               /\ Even(t) /\ WordsOf(t) = Append(WordsOf(r), w)
                               /\ Follows(t, rest)
        BY <2>1, <3>1, <4>1, <4>2, ExtractionStep DEF Fine
      <4>4. Fine(t)
        <5>1. PICK W, x : W = Words /\ x = WordsOf(r) /\ x \in Seq(W)
          BY <2>1 DEF Fine
        <5>2. Append(x, w) \in Seq(W)
          BY <5>1, Append1
        <5> QED
          BY <4>3, <5>1, <5>2 DEF Fine
      <4>5. Holds(t, rest, n)
        OBVIOUS
      <4> QED
        BY <4>1, <4>3, <4>4, <4>5
    <3>2. CASE ~ HasWord(s)
      <4>1. BlankText(s)
        BY <3>2, NoWord
      <4> QED
        BY <2>1, <4>1, WordsOfBlank DEF Fine
    <3> QED
      BY <3>1, <3>2
  <2> QED
    BY <2>1
<1>3. N \in SUBSET Nat
  OBVIOUS
<1> HIDE DEF N
<1>4. N = Nat
  BY <1>1, <1>2, <1>3, SetInduction
<1>5. ASSUME NEW s \in Texts PROVE Fine(s)
  <2>1. PICK z \in Texts : z = <<>>
    BY CharTypes
  <2>2. Fine(z) /\ Follows(z, s)
    BY <2>1, NoWordsType DEF Fine, Follows
  <2>3. PICK n \in Nat : n = Len(s) /\ n <= n
    BY TextIs
  <2>4. n \in N
    BY <1>4
  <2>5. Holds(z, s, n)
    BY <2>4 DEF N
  <2>6. Fine(z \o s)
    BY <2>2, <2>3, <2>5
  <2> QED
    BY <2>1, <2>6, EmptyConcat
<1> QED
  BY <1>5

\* The buffers that parseIncomingData is given.
Buffers == {b \in Seq(Chars) : Closed(b)}

LEMMA ShorterAfterLine ==
  ASSUME NEW u \in Buffers, u # <<>>
  PROVE  /\ Line(u) \in Texts /\ AfterLine(u) \in Buffers
         /\ Len(u) \in Nat /\ Len(AfterLine(u)) \in Nat /\ Len(AfterLine(u)) < Len(u)
<1>1. PICK line \in Texts, rest \in Seq(Chars) :
        /\ line = Line(u) /\ rest = AfterLine(u) /\ Closed(rest)
        /\ u = (line \o <<"LF">>) \o rest
  BY LineRead DEF Buffers
<1>2. PICK P : P = Chars
  OBVIOUS
<1>3. PICK z \in Seq(P) : z = <<>>
  BY EmptyIn
<1>4. PICK l \in Seq(P) : l = WithLine(z, line) /\ Len(l) = Len(line) + 1 /\ Len(line) \in Nat
  <2>1. Len(z) = 0 /\ z \in Seq(Chars)
    BY <1>2, <1>3
  <2>2. /\ Len(line) \in Nat /\ WithLine(z, line) \in Seq(Chars)
        /\ Len(WithLine(z, line)) = Len(z) + Len(line) + 1
    BY <2>1, WithLineIs
  <2> QED
    BY <1>2, <2>1, <2>2
<1>5. l = line \o <<"LF">>
  <2>1. z \o line = line
    BY <1>3, EmptyConcat
  <2> QED
    BY <1>4, <2>1 DEF WithLine
<1>6. u = l \o rest
  BY <1>1, <1>5
<1>7. Len(u) = Len(l) + Len(rest) /\ Len(rest) \in Nat
  BY <1>2, <1>6, Concat
<1> QED
  BY <1>1, <1>4, <1>7 DEF Buffers

LEMMA BufferInduction ==
  ASSUME NEW T \in SUBSET Buffers, <<>> \in T,
         \A d \in T, line \in Texts : WithLine(d, line) \in T
  PROVE  T = Buffers
<1> DEFINE N == {n \in Nat : \A d \in T, u \in Buffers : Len(u) <= n => d \o u \in T}
<1>1. \A u \in Buffers : u \in Seq(Chars) /\ Closed(u)
  BY DEF Buffers
<1>2. \A u \in Buffers : u \o <<>> = u /\ <<>> \o u = u
  <2>1. ASSUME NEW P, NEW u \in Seq(P) PROVE u \o <<>> = u /\ <<>> \o u = u
    OBVIOUS
  <2> QED
    BY <1>1, <2>1
<1>3. 0 \in N
  <2>1. ASSUME NEW d \in T, NEW u \in Buffers, Len(u) <= 0 PROVE d \o u \in T
    <3>1. u = <<>>
      BY <1>1, <2>1, SequenceIs
    <3> QED
      BY <1>2, <3>1
  <2> QED
    BY <2>1
<1>4. ASSUME NEW n \in N PROVE n + 1 \in N
  <2>1. ASSUME NEW d \in T, NEW u \in Buffers, Len(u) <= n + 1 PROVE d \o u \in T
    <3>1. CASE u = <<>>
      BY <1>2, <3>1
    <3>2. CASE u # <<>>
      <4>1. PICK rest \in Buffers : rest = AfterLine(u) /\ Len(rest) <= n
        BY <2>1, <3>2, ShorterAfterLine
      <4>2. PICK c \in T : c = WithLine(d, Line(u))
        BY <3>2, ShorterAfterLine
      <4>3. d \o u = c \o rest
        BY <1>1, <3>2, <4>1, <4>2, LineReadAfter
      <4> QED
        BY <4>1, <4>3
    <3> QED
      BY <3>1, <3>2
  <2> QED
    BY <2>1
<1>5. N \in SUBSET Nat
  OBVIOUS
<1> HIDE DEF N
<1>6. N = Nat
  BY <1>3, <1>4, <1>5, SetInduction
<1>7. ASSUME NEW u \in Buffers PROVE u \in T
  <2>1. PICK n \in Nat : n = Len(u) /\ n <= n
    BY <1>1, SequenceIs
  <2>2. n \in N
    BY <1>6
  <2>3. <<>> \o u \in T
    BY <2>1, <2>2 DEF N
  <2> QED
    BY <1>2, <2>3
<1> QED
  BY <1>7

\* What one line can mean.
Meant == {Meaning(line) : line \in Texts \ {<<>>}}

LEMMA MeaningsType == \A b \in Buffers : Meanings(b) \in Seq(Meant)
<1> DEFINE T == {b \in Buffers : Meanings(b) \in Seq(Meant)}
<1>1. <<>> \in T
  <2>1. <<>> \in Seq(Chars) /\ <<>> \in Seq(Meant)
    BY EmptyIn
  <2> QED
    BY <2>1, MeaningsOfNothing DEF Buffers, Closed
<1>2. ASSUME NEW d \in T, NEW line \in Texts PROVE WithLine(d, line) \in T
  <2>1. d \in Seq(Chars) /\ Closed(d)
    BY DEF Buffers
  <2>2. WithLine(d, line) \in Buffers
    BY <2>1, WithLineIs DEF Buffers
  <2>3. PICK M, ms : M = Meant /\ ms = Meanings(d) /\ ms \in Seq(M)
    OBVIOUS
  <2>4. CASE line = <<>>
    BY <2>1, <2>2, <2>4, MeaningsMore
  <2>5. CASE line # <<>>
    <3>1. PICK m \in M : m = Meaning(line)
      BY <2>3, <2>5 DEF Meant
    <3>2. Append(ms, m) \in Seq(M)
      BY <2>3, Append1
    <3>3. Meanings(WithLine(d, line)) = Append(ms, m)
      BY <2>1, <2>3, <2>5, <3>1, MeaningsMore
    <3> QED
      BY <2>2, <2>3, <3>2, <3>3
  <2> QED
    BY <2>4, <2>5
<1> HIDE DEF T
<1>3. T \in SUBSET Buffers
  BY DEF T
<1>4. T = Buffers
  BY <1>1, <1>2, <1>3, BufferInduction
<1> QED
  BY <1>4 DEF T

-----------------------------------------------------------------------------
(* A message as a line *)

Mark == <<" ", ":">>

LEMMA JoinedWords ==
  ASSUME NEW x \in Texts, Even(x), NEW w \in Words
  PROVE  /\ Joined(x, w) \in Texts /\ Even(Joined(x, w))
         /\ WordsOf(Joined(x, w)) = Append(WordsOf(x), w)
<1>1. PICK b \in Texts : b = <<" ">>
  BY CharTypes
<1>2. Len(b) = 1 /\ b[1] = " "
  BY <1>1
<1>3. BlankText(b)
  <2>1. \A k \in 1 .. 1 : b[k] = " "
    <3>1. \A k \in 1 .. 1 : k = 1
      OBVIOUS
    <3> QED
      BY <1>2, <3>1, Zenon
  <2>2. " " \in Blanks
    BY DEF Blanks
  <2> QED
    BY <1>2, <2>1, <2>2, Zenon DEF BlankText
<1>4. PICK y \in Texts : y = x \o b
  BY TextConcat
<1>5. Even(y) /\ WordsOf(y) = WordsOf(x)
  BY <1>3, <1>4, WordsOfBlank
<1>6. Apart(y)
  <2>1. PICK n \in Nat : n = Len(x)
    BY TextIs
  <2>2. Len(y) = n + 1 /\ y[n + 1] = " "
    <3>1. /\ Len(x \o b) = Len(x) + Len(b)
          /\ \A k \in 1 .. Len(b) : (x \o b)[Len(x) + k] = b[k]
      BY TextConcat
    <3>2. Len(y) = n + 1 /\ \A k \in 1 .. 1 : y[n + k] = b[k]
      BY <1>2, <1>4, <2>1, <3>1, Zenon
    <3>3. 1 \in 1 .. 1
      OBVIOUS
    <3> QED
      BY <1>2, <3>2, <3>3, Zenon
  <2> QED
    BY <2>2 DEF Apart, Blanks
<1>7. w \in Texts
  BY WordIs
<1>8. Joined(x, w) = y \o w
  BY <1>1, <1>4 DEF Joined
<1> QED
  BY <1>5, <1>6, <1>7, <1>8, TextConcat, WordsOfMore

LEMMA JoinedIs ==
  ASSUME NEW s \in Texts, NEW w \in Texts PROVE Joined(s, w) = s \o (<<" ">> \o w)
<1>1. PICK b \in Texts : b = <<" ">>
  BY CharTypes
<1>2. (s \o b) \o w = s \o (b \o w)
  BY AssociativeText
<1> QED
  BY <1>1, <1>2 DEF Joined

\* The words ws are a command, its arguments and, after a mark, its trailing part;
\* x is the text that has them one after the other.
Shape(p, ws, c, a, t, x) ==
  /\ c \in Texts /\ a \in Seq(Words) /\ t \in Texts /\ x \in Texts
  /\ Even(x) /\ WordsOf(x) = ws
  /\ \/ /\ Colons(ws) = {}
        /\ Made(p, ws) = Parts(p, c, a, <<>>, No)
        /\ x = c \o Spaced(a)
     \/ /\ Colons(ws) # {}
        /\ Made(p, ws) = Parts(p, c, a, t, Yes)
        /\ x = (c \o Spaced(a)) \o (Mark \o t)

HasShape(p, ws) == \E c, a, t, x : Shape(p, ws, c, a, t, x)

LEMMA ShapeOfNothing == \A p : HasShape(p, <<>>)
<1> TAKE p
<1>1. PICK z : z = <<>>
  OBVIOUS
<1>2. z \in Texts /\ z \in Seq(Words)
  BY <1>1, CharTypes, EmptyIn
<1>3. Even(z) /\ WordsOf(z) = z
  BY <1>1, NoWordsType
<1>4. Colons(z) = {}
  BY <1>1 DEF Colons
<1>5. Made(p, z) = Parts(p, z, z, <<>>, No)
  BY <1>1, MadeOfNothing, Zenon
<1>6. z = z \o Spaced(z)
  BY <1>1, <1>2, SpacedEmpty, EmptyConcat
<1>7. Shape(p, z, z, z, z, z)
  BY <1>2, <1>3, <1>4, <1>5, <1>6 DEF Shape
<1> QED
  BY <1>1, <1>7 DEF HasShape

LEMMA ShapeOfOne ==
  ASSUME NEW p, NEW w \in Words PROVE HasShape(p, Append(<<>>, w))
<1>1. PICK z : z = <<>>
  OBVIOUS
<1>2. z \in Texts /\ z \in Seq(Words) /\ w \in Texts
  BY <1>1, CharTypes, EmptyIn, WordIs
<1>3. PICK ws : ws = Append(z, w)
  OBVIOUS
<1>4. Even(w) /\ WordsOf(w) = ws
  <2>1. Even(z) /\ WordsOf(z) = z /\ Apart(z)
    BY <1>1, NoWordsType DEF Apart
  <2>2. Even(z \o w) /\ WordsOf(z \o w) = Append(z, w)
    BY <1>2, <2>1, WordsOfMore
  <2> QED
    BY <1>1, <1>2, <1>3, <2>2, EmptyConcat
<1>5. Colons(ws) = {}
  BY <1>1, <1>2, <1>3, ColonsMore DEF Colons
<1>6. Made(p, ws) = Parts(p, w, z, <<>>, No)
  <2>1. Made(p, ws) = SetCmd(Made(p, z), w)
    BY <1>1, <1>3, MadeOfOne
  <2>2. PICK m : m = Made(p, z) /\ m = Parts(p, z, z, z, No)
    BY <1>1, MadeOfNothing, Zenon
  <2>3. SetCmd(m, w) = Parts(p, w, z, z, No)
    BY <2>2, WithCmd
  <2> QED
    BY <1>1, <2>1, <2>2, <2>3, Zenon
<1>7. w = w \o Spaced(z)
  BY <1>1, <1>2, SpacedEmpty, EmptyConcat
<1>8. Shape(p, ws, w, z, z, w)
  BY <1>2, <1>4, <1>5, <1>6, <1>7 DEF Shape
<1> QED
  BY <1>1, <1>3, <1>8 DEF HasShape

LEMMA SpacedArgs == \A a \in Seq(Words) : Spaced(a) \in Texts
<1>1. \A w \in Words : w \in Texts
  BY WordIs
<1>2. PICK A, B : A = Words /\ B = Texts /\ A \subseteq B
  BY <1>1
<1>3. \A a \in Seq(A) : a \in Seq(B)
  BY <1>2, SeqMonotonic
<1> QED
  BY <1>2, <1>3, SpacedType

LEMMA ShapeWithArgument ==
  ASSUME NEW p, NEW ws \in Seq(Words), ws # <<>>, NEW w \in Words, w[1] # ":",
         Colons(ws) = {}, HasShape(p, ws)
  PROVE  HasShape(p, Append(ws, w))
<1>1. PICK c, a, t, x : Shape(p, ws, c, a, t, x)
  BY DEF HasShape
<1>2. /\ c \in Texts /\ a \in Seq(Words) /\ t \in Texts /\ x \in Texts
      /\ Even(x) /\ WordsOf(x) = ws
      /\ Made(p, ws) = Parts(p, c, a, <<>>, No) /\ x = c \o Spaced(a)
  BY <1>1 DEF Shape
<1>3. PICK y : y = Joined(x, w)
  OBVIOUS
<1>4. y \in Texts /\ Even(y) /\ WordsOf(y) = Append(ws, w)
  BY <1>2, <1>3, JoinedWords
<1>5. Colons(Append(ws, w)) = {}
  BY ColonsMore
<1>6. PICK W, b : W = Words /\ b = Append(a, w)
  OBVIOUS
<1>7. b \in Seq(W)
  BY <1>2, <1>6, Append1
<1>8. Made(p, Append(ws, w)) = Parts(p, c, b, <<>>, No)
  <2>1. PICK m, z : m = Made(p, ws) /\ z = <<>> /\ m = Parts(p, c, a, z, No)
    BY <1>2, Zenon
  <2>2. AddArg(m, w) = Parts(p, c, Append(a, w), z, No)
    BY <2>1, WithArgs
  <2>3. Made(p, Append(ws, w)) = AddArg(m, w)
    BY <2>1, MadeWithArgument
  <2> QED
    BY <1>6, <2>1, <2>2, <2>3, Zenon
<1>9. y = c \o Spaced(b)
  <2>1. PICK s \in Texts : s = Spaced(a)
    BY <1>2, SpacedArgs
  <2>2. Spaced(b) = Joined(s, w)
    BY <1>2, <1>6, <2>1, SpacedAppend
  <2>3. c \o Joined(s, w) = Joined(c \o s, w)
    <3>1. w \in Texts /\ c \in Texts
      BY <1>2, WordIs
    <3> QED
      BY <3>1, JoinedConcat, Zenon
  <2> QED
    BY <1>2, <1>3, <2>1, <2>2, <2>3
<1>10. Shape(p, Append(ws, w), c, b, t, y)
  BY <1>2, <1>4, <1>5, <1>6, <1>7, <1>8, <1>9 DEF Shape
<1> QED
  BY <1>10 DEF HasShape

LEMMA MarkIs == Mark \in Texts /\ Len(Mark) = 2 /\ Mark[1] = " " /\ Mark[2] = ":"
<1>1. PICK P : P = Chars \ {"LF"}
  OBVIOUS
<1>2. PICK a \in P, b \in P : a = " " /\ b = ":"
  BY <1>1, CharTypes
<1>3. <<a, b>> \in Seq(P) /\ Len(<<a, b>>) = 2 /\ <<a, b>>[1] = a /\ <<a, b>>[2] = b
  OBVIOUS
<1> QED
  BY <1>1, <1>2, <1>3 DEF Mark, Texts

\* A word with a colon is a mark and the text after the colon.
LEMMA Marked ==
  ASSUME NEW w \in Words, w[1] = ":"
  PROVE  Tail(w) \in Texts /\ Mark \o Tail(w) = <<" ">> \o w
<1>1. PICK P : P = Chars \ {"LF"}
  OBVIOUS
<1>2. w \in Seq(P) /\ w # <<>>
  BY <1>1, WordIs DEF Texts
<1>3. PICK n \in Nat : Len(w) = n + 1
  <2>1. Len(w) \in Nat \ {0}
    BY WordIs
  <2>2. Len(w) - 1 \in Nat /\ Len(w) = Len(w) - 1 + 1
    BY <2>1
  <2> QED
    BY <2>2
<1>4. PICK t : t = Tail(w)
  OBVIOUS
<1>5. t \in Seq(P) /\ Len(t) = n /\ \A k \in 1 .. n : t[k] = w[k + 1]
  BY <1>2, <1>3, <1>4
<1>6. PICK b : b = <<" ">>
  OBVIOUS
<1>7. b \in Seq(P) /\ Len(b) = 1 /\ b[1] = " "
  BY <1>1, <1>6, CharTypes, OneElement
<1>8. PICK x : x = Mark \o t
  OBVIOUS
<1>9. /\ x \in Seq(P) /\ Len(x) = n + 2
      /\ x[1] = " " /\ x[2] = ":" /\ \A k \in 1 .. n : x[2 + k] = t[k]
  <2>1. Mark \in Seq(P)
    BY <1>1, MarkIs DEF Texts
  <2>2. /\ Mark \o t \in Seq(P) /\ Len(Mark \o t) = Len(Mark) + Len(t)
        /\ \A k \in 1 .. Len(Mark) : (Mark \o t)[k] = Mark[k]
        /\ \A k \in 1 .. Len(t) : (Mark \o t)[Len(Mark) + k] = t[k]
    <3>1. PICK m : m = Mark /\ m \in Seq(P) /\ t \in Seq(P)
      BY <1>5, <2>1
    <3> QED
      BY <3>1, Concat
  <2>3. 1 \in 1 .. 2 /\ 2 \in 1 .. 2 /\ 2 + n = n + 2
    OBVIOUS
  <2> QED
    BY <1>5, <1>8, <2>2, <2>3, MarkIs
<1>10. PICK y : y = b \o w
  OBVIOUS
<1>11. /\ y \in Seq(P) /\ Len(y) = n + 2
       /\ y[1] = " " /\ \A k \in 1 .. n + 1 : y[1 + k] = w[k]
  <2>1. /\ b \o w \in Seq(P) /\ Len(b \o w) = Len(b) + Len(w)
        /\ \A k \in 1 .. Len(b) : (b \o w)[k] = b[k]
        /\ \A k \in 1 .. Len(w) : (b \o w)[Len(b) + k] = w[k]
    <3>1. b \in Seq(P) /\ w \in Seq(P)
      BY <1>2, <1>7
    <3> QED
      BY <3>1, Concat
  <2>2. 1 \in 1 .. 1 /\ 1 + (n + 1) = n + 2
    OBVIOUS
  <2> QED
    BY <1>3, <1>7, <1>10, <2>1, <2>2
<1>12. ASSUME NEW k \in 1 .. n + 2 PROVE y[k] = x[k]
  <2>1. CASE k = 1
    BY <1>9, <1>11, <2>1
  <2>2. CASE k = 2
    <3>1. 1 \in 1 .. n + 1 /\ 1 + 1 = 2
      OBVIOUS
    <3> QED
      BY <1>9, <1>11, <2>2, <3>1
  <2>3. CASE k \in 3 .. n + 2
    <3>1. PICK i \in 1 .. n : k = 2 + i /\ k = 1 + (i + 1)
      <4>1. k - 2 \in 1 .. n /\ k = 2 + (k - 2) /\ k = 1 + (k - 2 + 1)
        BY <2>3
      <4> QED
        BY <4>1
    <3>2. i + 1 \in 1 .. n + 1
      OBVIOUS
    <3> QED
      BY <1>5, <1>9, <1>11, <3>1, <3>2
  <2> QED
    BY <2>1, <2>2, <2>3
<1>13. x = y
  BY <1>9, <1>11, <1>12, SameSequence
<1> QED
  BY <1>1, <1>4, <1>5, <1>6, <1>8, <1>10, <1>13 DEF Texts

LEMMA ShapeWithColon ==
  ASSUME NEW p, NEW ws \in Seq(Words), ws # <<>>, NEW w \in Words, w[1] = ":",
         Colons(ws) = {}, HasShape(p, ws)
  PROVE  HasShape(p, Append(ws, w))
<1>1. PICK c, a, t, x : Shape(p, ws, c, a, t, x)
  BY DEF HasShape
<1>2. /\ c \in Texts /\ a \in Seq(Words) /\ x \in Texts
      /\ Even(x) /\ WordsOf(x) = ws
      /\ Made(p, ws) = Parts(p, c, a, <<>>, No) /\ x = c \o Spaced(a)
  BY <1>1 DEF Shape
<1>3. PICK y : y = Joined(x, w)
  OBVIOUS
<1>4. y \in Texts /\ Even(y) /\ WordsOf(y) = Append(ws, w)
  BY <1>2, <1>3, JoinedWords
<1>5. Colons(Append(ws, w)) # {}
  BY ColonsMore
<1>6. PICK u \in Texts : u = Tail(w) /\ Mark \o u = <<" ">> \o w
  BY Marked
<1>7. Made(p, Append(ws, w)) = Parts(p, c, a, u, Yes)
  <2>1. PICK m, z : m = Made(p, ws) /\ z = <<>> /\ m = Parts(p, c, a, z, No)
    BY <1>2, Zenon
  <2>2. SetTrailing(m, u) = Parts(p, c, a, u, Yes)
    BY <2>1, WithTrailing
  <2>3. Made(p, Append(ws, w)) = SetTrailing(m, Tail(w))
    BY <2>1, MadeWithColon
  <2> QED
    BY <1>6, <2>2, <2>3, Zenon
<1>8. y = (c \o Spaced(a)) \o (Mark \o u)
  <2>1. w \in Texts
    BY WordIs
  <2>2. y = x \o (<<" ">> \o w)
    BY <1>2, <1>3, <2>1, JoinedIs
  <2> QED
    BY <1>2, <1>6, <2>2, Zenon
<1>9. Shape(p, Append(ws, w), c, a, u, y)
  BY <1>2, <1>4, <1>5, <1>6, <1>7, <1>8 DEF Shape
<1> QED
  BY <1>9 DEF HasShape

LEMMA ShapeWithMore ==
  ASSUME NEW p, NEW ws \in Seq(Words), NEW w \in Words, Colons(ws) # {}, HasShape(p, ws)
  PROVE  HasShape(p, Append(ws, w))
<1>1. PICK c, a, t, x : Shape(p, ws, c, a, t, x)
  BY DEF HasShape
<1>2. /\ c \in Texts /\ a \in Seq(Words) /\ t \in Texts /\ x \in Texts
      /\ Even(x) /\ WordsOf(x) = ws
      /\ Made(p, ws) = Parts(p, c, a, t, Yes) /\ x = (c \o Spaced(a)) \o (Mark \o t)
  BY <1>1 DEF Shape
<1>3. PICK y : y = Joined(x, w)
  OBVIOUS
<1>4. y \in Texts /\ Even(y) /\ WordsOf(y) = Append(ws, w)
  BY <1>2, <1>3, JoinedWords
<1>5. Colons(Append(ws, w)) # {}
  BY ColonsMore
<1>6. w \in Texts
  BY WordIs
<1>7. PICK u \in Texts : u = Joined(t, w)
  BY <1>2, <1>6, JoinedConcat
<1>8. Made(p, Append(ws, w)) = Parts(p, c, a, u, Yes)
  <2>1. PICK m, b : m = Made(p, ws) /\ b = Yes /\ m = Parts(p, c, a, t, b)
    BY <1>2, Zenon
  <2>2. AddTrailing(m, w) = Parts(p, c, a, Joined(t, w), b)
    BY <2>1, WithMore
  <2>3. Made(p, Append(ws, w)) = AddTrailing(m, w)
    BY <2>1, MadeWithMore
  <2> QED
    BY <1>7, <2>1, <2>2, <2>3, Zenon
<1>9. y = (c \o Spaced(a)) \o (Mark \o u)
  <2>1. PICK s \in Texts : s = Spaced(a)
    BY <1>2, SpacedArgs
  <2>2. PICK b \in Texts : b = c \o s
    BY <1>2, TextConcat
  <2>3. PICK v \in Texts : v = Mark \o t
    BY <1>2, MarkIs, TextConcat
  <2>4. Mark \o Joined(t, w) = Joined(Mark \o t, w)
    <3>1. PICK k \in Texts : k = Mark
      BY MarkIs
    <3>2. k \in Texts /\ t \in Texts /\ w \in Texts
      BY <1>2, <1>6
    <3>3. k \o Joined(t, w) = Joined(k \o t, w)
      BY <3>2, JoinedConcat
    <3> QED
      BY <3>1, <3>3
  <2>5. b \o Joined(v, w) = Joined(b \o v, w)
    <3>1. b \in Texts /\ v \in Texts /\ w \in Texts
      BY <1>6
    <3> QED
      BY <3>1, JoinedConcat
  <2> QED
    BY <1>2, <1>3, <1>7, <2>1, <2>2, <2>3, <2>4, <2>5, Zenon
<1>10. Shape(p, Append(ws, w), c, a, u, y)
  BY <1>2, <1>4, <1>5, <1>7, <1>8, <1>9 DEF Shape
<1> QED
  BY <1>10 DEF HasShape

LEMMA ShapeOfAll == \A p : \A ws \in Seq(Words) : HasShape(p, ws)
<1> TAKE p
<1>1. PICK W : W = Words
  OBVIOUS
<1> DEFINE T == {ws \in Seq(W) : HasShape(p, ws)}
<1>2. <<>> \in T
  BY ShapeOfNothing, EmptyIn
<1>3. ASSUME NEW ws \in T, NEW w \in W PROVE Append(ws, w) \in T
  <2>1. Append(ws, w) \in Seq(W)
    BY Append1
  <2>2. HasShape(p, Append(ws, w))
    BY <1>1, ShapeOfOne, ShapeWithArgument, ShapeWithColon, ShapeWithMore
  <2> QED
    BY <2>1, <2>2
<1>4. T \in SUBSET Seq(W)
  OBVIOUS
<1> HIDE DEF T
<1>5. T = Seq(W)
  BY <1>2, <1>3, <1>4, SequenceInduction
<1> QED
  BY <1>1, <1>5 DEF T

Space == " "
Colon == ":"

\* A prefix ends at its first space.
Plain(p) == p \in Texts /\ \A n \in 1 .. Len(p) : p[n] # Space

Lead(p) == (<<":">> \o p) \o <<" ">>

IsLed(line, p, x) == line = Lead(p) \o x

\* In line, p is between a colon and a space, the n-th character, and x after it.
Consists(line, p, x, n, l, m) ==
  /\ line \in Texts /\ Len(line) = n + m
  /\ line[1] = Colon /\ line[n] = Space
  /\ \A k \in 1 .. l : line[1 + k] = p[k]
  /\ \A k \in 1 .. m : line[n + k] = x[k]

LEMMA LeadIs ==
  ASSUME NEW p \in Texts, NEW x \in Texts, NEW l \in Nat, NEW m \in Nat,
         l = Len(p), m = Len(x), NEW line, IsLed(line, p, x)
  PROVE  Lead(p) \in Texts /\ Consists(line, p, x, l + 2, l, m)
<1>1. PICK P : P = Chars \ {"LF"} /\ Texts = Seq(P)
  BY DEF Texts
<1>2. PICK e, s : e = <<":">> /\ s = <<" ">>
  OBVIOUS
<1>3. /\ e \in Seq(P) /\ Len(e) = 1 /\ e[1] = Colon
      /\ s \in Seq(P) /\ Len(s) = 1 /\ s[1] = Space
  <2>1. e = <<Colon>> /\ s = <<Space>>
    BY <1>2, Zenon DEF Colon, Space
  <2>2. Colon \in P /\ Space \in P
    BY <1>1, CharTypes, Zenon DEF Colon, Space
  <2> QED
    BY <2>1, <2>2, OneElement
<1>4. p \in Seq(P) /\ x \in Seq(P)
  BY <1>1
<1>5. PICK a : a = e \o p
  OBVIOUS
<1>6. /\ a \in Seq(P) /\ Len(a) = 1 + l /\ a[1] = Colon
      /\ \A k \in 1 .. l : a[1 + k] = p[k]
  <2>1. e \in Seq(P) /\ p \in Seq(P)
    BY <1>3, <1>4
  <2>2. /\ e \o p \in Seq(P) /\ Len(e \o p) = Len(e) + Len(p)
        /\ \A k \in 1 .. Len(e) : (e \o p)[k] = e[k]
        /\ \A k \in 1 .. Len(p) : (e \o p)[Len(e) + k] = p[k]
    BY <2>1, Concat
  <2>3. 1 \in 1 .. 1
    OBVIOUS
  <2> QED
    BY <1>3, <1>5, <2>2, <2>3
<1>7. PICK b : b = a \o s
  OBVIOUS
<1>8. /\ b \in Seq(P) /\ Len(b) = l + 2 /\ b[1] = Colon /\ b[l + 2] = Space
      /\ \A k \in 1 .. l : b[1 + k] = p[k]
  <2>1. a \in Seq(P) /\ s \in Seq(P)
    BY <1>3, <1>6
  <2>2. /\ a \o s \in Seq(P) /\ Len(a \o s) = Len(a) + Len(s)
        /\ \A k \in 1 .. Len(a) : (a \o s)[k] = a[k]
        /\ \A k \in 1 .. Len(s) : (a \o s)[Len(a) + k] = s[k]
    BY <2>1, Concat
  <2>3. /\ 1 \in 1 .. 1 /\ 1 \in 1 .. 1 + l /\ 1 + l + 1 = l + 2
        /\ \A k \in 1 .. l : 1 + k \in 1 .. 1 + l
    OBVIOUS
  <2> QED
    BY <1>3, <1>6, <1>7, <2>2, <2>3
<1>9. line = b \o x
  BY <1>2, <1>5, <1>7 DEF Lead, IsLed
<1>10. /\ line \in Seq(P) /\ Len(line) = l + 2 + m
       /\ \A k \in 1 .. l + 2 : line[k] = b[k]
       /\ \A k \in 1 .. m : line[l + 2 + k] = x[k]
  <2>1. b \in Seq(P) /\ x \in Seq(P)
    BY <1>4, <1>8
  <2>2. /\ b \o x \in Seq(P) /\ Len(b \o x) = Len(b) + Len(x)
        /\ \A k \in 1 .. Len(b) : (b \o x)[k] = b[k]
        /\ \A k \in 1 .. Len(x) : (b \o x)[Len(b) + k] = x[k]
    BY <2>1, Concat
  <2> QED
    BY <1>8, <1>9, <2>2
<1>11. /\ 1 \in 1 .. l + 2 /\ l + 2 \in 1 .. l + 2
       /\ \A k \in 1 .. l : 1 + k \in 1 .. l + 2
  OBVIOUS
<1>12. Lead(p) = b
  BY <1>2, <1>5, <1>7 DEF Lead
<1> QED
  BY <1>1, <1>8, <1>10, <1>11, <1>12 DEF Consists

LEMMA MeaningOfLead ==
  ASSUME NEW p, Plain(p), NEW x \in Texts, NEW line, IsLed(line, p, x)
  PROVE  Meaning(line) = Made(p, WordsOf(x))
<1>1. p \in Texts
  BY DEF Plain
<1>2. PICK l \in Nat, m \in Nat, n \in Nat : l = Len(p) /\ m = Len(x) /\ n = l + 2
  BY <1>1, TextIs
<1>3. /\ line \in Texts /\ Len(line) = n + m
      /\ line[1] = Colon /\ line[n] = Space
      /\ \A k \in 1 .. l : line[1 + k] = p[k]
      /\ \A k \in 1 .. m : line[n + k] = x[k]
  <2>1. Consists(line, p, x, l + 2, l, m)
    <3>1. p \in Texts /\ x \in Texts
      BY <1>1
    <3>2. l = Len(p) /\ m = Len(x)
      BY <1>2
    <3> QED
      BY <3>1, <3>2, LeadIs
  <2>2. Consists(line, p, x, n, l, m)
    BY <1>2, <2>1
  <2> QED
    BY <2>2 DEF Consists
<1>4. PICK P : P = Chars \ {"LF"} /\ Texts = Seq(P)
  BY DEF Texts
<1>5. PICK e : e = PrefixEnd(line)
  OBVIOUS
<1>6. /\ e \in 1 .. n + m + 1
      /\ \A i \in 1 .. n + m : i < e => line[i] \notin {Space}
      /\ e # n + m + 1 => line[e] \in {Space}
  <2>1. e = Find(line, {Space})
    BY <1>5, Zenon DEF PrefixEnd, Space
  <2>2. line \in Seq(P)
    BY <1>3, <1>4
  <2> QED
    BY <1>3, <2>1, <2>2, FindIs
<1>7. e = n
  <2>1. n \in 1 .. n + m
    BY <1>2
  <2>2. ~ (n < e)
    BY <1>3, <1>6, <2>1
  <2>3. ASSUME e < n PROVE FALSE
    <3>1. line[e] = Space
      BY <1>6, <2>3
    <3>2. e # 1
      <4>1. Space # Colon
        BY Zenon DEF Space, Colon
      <4> QED
        BY <1>3, <3>1, <4>1
    <3>3. PICK k \in 1 .. l : e = 1 + k
      <4>1. e - 1 \in 1 .. l /\ e = 1 + (e - 1)
        BY <1>2, <1>6, <2>3, <3>2
      <4> QED
        BY <4>1
    <3>4. p[k] # Space
      BY <1>2 DEF Plain
    <3> QED
      BY <1>3, <3>1, <3>3, <3>4
  <2> QED
    BY <1>6, <2>2, <2>3
<1>8. line # <<>>
  BY <1>2, <1>3, TextIs
<1>9. StartsTrailing(line)
  <2>1. Head(line) = line[1]
    BY <1>3, <1>4, <1>8
  <2> QED
    BY <1>3, <1>8, <2>1, Zenon DEF StartsTrailing, Colon
<1>10. e <= Len(line)
  BY <1>3, <1>7
<1>11. Meaning(line) = Made(SubSeq(line, 2, e - 1), WordsOf(From(line, e + 1)))
  BY <1>3, <1>5, <1>8, <1>9, <1>10, MeaningIs
<1>12. SubSeq(line, 2, e - 1) = p
  <2>1. line \in Seq(P) /\ p \in Seq(P) /\ 1 + l <= Len(line) /\ 1 \in Nat
    BY <1>1, <1>2, <1>3, <1>4
  <2>2. SubSeq(line, 1 + 1, 1 + l) = p
    BY <1>2, <1>3, <2>1, MiddleIs
  <2>3. 1 + 1 = 2 /\ 1 + l = e - 1
    BY <1>2, <1>7
  <2> QED
    BY <2>2, <2>3
<1>13. From(line, e + 1) = x
  <2>1. line \in Seq(P) /\ x \in Seq(P) /\ n + m <= Len(line)
    BY <1>3, <1>4
  <2>2. SubSeq(line, n + 1, n + m) = x
    BY <1>2, <1>3, <2>1, MiddleIs
  <2> QED
    BY <1>3, <1>7, <2>2 DEF From
<1> QED
  BY <1>11, <1>12, <1>13

WrittenAs(p, c, a, rest) == ((Lead(p) \o c) \o Spaced(a)) \o rest

LEMMA WrittenIs ==
  ASSUME NEW p, NEW c, NEW a, NEW t
  PROVE  /\ Written(Parts(p, c, a, t, No)) = WrittenAs(p, c, a, <<>>)
         /\ Written(Parts(p, c, a, t, Yes)) = WrittenAs(p, c, a, Mark \o t)
<1>1. ASSUME NEW b, NEW m, m = Parts(p, c, a, t, b)
      PROVE  Written(m) = WrittenAs(p, c, a, IF b THEN Mark \o t ELSE <<>>)
  <2>1. m.prefix = p /\ m.cmd = c /\ m.args = a /\ m.trailing = t /\ m.trailing_sign = b
    BY <1>1 DEF Parts
  <2> QED
    BY <2>1, Zenon DEF Written, WrittenAs, Lead, Mark
<1>2. Written(Parts(p, c, a, t, No)) = WrittenAs(p, c, a, IF No THEN Mark \o t ELSE <<>>)
  BY <1>1
<1>3. Written(Parts(p, c, a, t, Yes)) = WrittenAs(p, c, a, IF Yes THEN Mark \o t ELSE <<>>)
  BY <1>1
<1>4. (IF No THEN Mark \o t ELSE <<>>) = <<>> /\ (IF Yes THEN Mark \o t ELSE <<>>) = Mark \o t
  BY Zenon DEF No, Yes
<1> QED
  BY <1>2, <1>3, <1>4, Zenon

LEMMA WrittenMade ==
  ASSUME NEW p, Plain(p), NEW ws \in Seq(Words)
  PROVE  Meaning(Written(Made(p, ws))) = Made(p, ws)
<1>1. PICK c, a, t, x : Shape(p, ws, c, a, t, x)
  BY ShapeOfAll DEF HasShape
<1>2. /\ c \in Texts /\ a \in Seq(Words) /\ t \in Texts /\ x \in Texts
      /\ WordsOf(x) = ws
  BY <1>1 DEF Shape
<1>3. PICK s \in Texts : s = Spaced(a)
  BY <1>2, SpacedArgs
<1>4. PICK y \in Texts : y = c \o s
  BY <1>2, TextConcat
<1>5. PICK h \in Texts : h = Lead(p)
  <2>1. p \in Texts /\ x \in Texts
    BY <1>2 DEF Plain
  <2>2. PICK l \in Nat, m \in Nat : l = Len(p) /\ m = Len(x)
    BY <2>1, TextIs
  <2>3. IsLed(Lead(p) \o x, p, x)
    BY DEF IsLed
  <2> QED
    BY <2>1, <2>2, <2>3, LeadIs
<1>6. \A rest \in Texts : WrittenAs(p, c, a, rest) = h \o (y \o rest)
  <2>1. ASSUME NEW rest \in Texts PROVE WrittenAs(p, c, a, rest) = h \o (y \o rest)
    <3>1. (h \o c) \o s = h \o (c \o s)
      <4>1. h \in Texts /\ c \in Texts /\ s \in Texts
        BY <1>2
      <4> QED
        BY <4>1, AssociativeText
    <3>2. (h \o y) \o rest = h \o (y \o rest)
      <4>1. h \in Texts /\ y \in Texts /\ rest \in Texts
        OBVIOUS
      <4> QED
        BY <4>1, AssociativeText
    <3> QED
      BY <1>3, <1>4, <1>5, <3>1, <3>2, Zenon DEF WrittenAs
  <2> QED
    BY <2>1
<1>7. Written(Made(p, ws)) = h \o x
  <2>1. CASE Colons(ws) = {}
    <3>1. Made(p, ws) = Parts(p, c, a, <<>>, No) /\ x = y
      BY <1>1, <1>3, <1>4, <2>1 DEF Shape
    <3>2. Written(Made(p, ws)) = WrittenAs(p, c, a, <<>>)
      BY <3>1, WrittenIs, Zenon
    <3>3. WrittenAs(p, c, a, <<>>) = h \o (y \o <<>>)
      BY <1>6, CharTypes
    <3> QED
      BY <3>1, <3>2, <3>3, EmptyConcat
  <2>2. CASE Colons(ws) # {}
    <3>1. Made(p, ws) = Parts(p, c, a, t, Yes) /\ x = y \o (Mark \o t)
      BY <1>1, <1>3, <1>4, <2>2 DEF Shape
    <3>2. Written(Made(p, ws)) = WrittenAs(p, c, a, Mark \o t)
      BY <3>1, WrittenIs, Zenon
    <3>3. Mark \o t \in Texts
      BY <1>2, MarkIs, TextConcat
    <3>4. WrittenAs(p, c, a, Mark \o t) = h \o (y \o (Mark \o t))
      BY <1>6, <3>3
    <3> QED
      BY <3>1, <3>2, <3>4
  <2> QED
    BY <2>1, <2>2
<1> QED
  <2>1. IsLed(h \o x, p, x)
    BY <1>5, Zenon DEF IsLed
  <2> QED
    BY <1>2, <1>7, <2>1, MeaningOfLead

LEMMA PrefixIsPlain ==
  ASSUME NEW line \in Texts, line # <<>>, PrefixEnd(line) <= Len(line)
  PROVE  LET p == SubSeq(line, 2, PrefixEnd(line) - 1) IN p \in Texts => Plain(p)
<1>1. PICK P : P = Chars \ {"LF"} /\ Texts = Seq(P)
  BY DEF Texts
<1>2. PICK n \in Nat \ {0} : n = Len(line)
  BY <1>1
<1>3. PICK e : e = PrefixEnd(line)
  OBVIOUS
<1>4. /\ e \in 1 .. n
      /\ \A i \in 1 .. n : i < e => line[i] \notin {Space}
  <2>1. e = Find(line, {Space})
    BY <1>3, Zenon DEF PrefixEnd, Space
  <2>2. line \in Seq(P)
    BY <1>1
  <2> QED
    BY <1>2, <1>3, <2>1, <2>2, FindIs
<1>5. PICK p : p = SubSeq(line, 2, e - 1)
  OBVIOUS
<1>6. ASSUME NEW k \in 1 .. Len(p) PROVE p[k] # Space
  <2>1. Len(p) = (IF 2 <= e - 1 THEN e - 2 ELSE 0) /\ p[k] = line[k + 1]
    BY <1>1, <1>2, <1>4, <1>5
  <2>2. k + 1 \in 1 .. n /\ k + 1 < e
    BY <1>4, <2>1
  <2> QED
    BY <1>4, <2>1, <2>2
<1> QED
  BY <1>3, <1>5, <1>6 DEF Plain

LEMMA EmptyIsPlain == Plain(<<>>)
<1>1. PICK z \in Texts : z = <<>>
  BY CharTypes
<1>2. 1 .. Len(z) = {}
  BY <1>1
<1> QED
  BY <1>1, <1>2 DEF Plain

LEMMA MeantIs ==
  ASSUME NEW m \in Meant
  PROVE  \E p : Plain(p) /\ \E ws \in Seq(Words) : m = Made(p, ws)
<1>1. PICK line \in Texts : line # <<>> /\ m = Meaning(line)
  BY DEF Meant
<1>2. CASE ~ StartsTrailing(line)
  <2>1. PICK ws \in Seq(Words) : ws = WordsOf(line)
    BY AllFine DEF Fine
  <2>2. m = Made(<<>>, ws)
    BY <1>1, <1>2, <2>1, MeaningIs
  <2> QED
    BY <2>2, EmptyIsPlain
<1>3. CASE StartsTrailing(line) /\ PrefixEnd(line) > Len(line)
  <2>1. m = Made(<<>>, <<>>)
    BY <1>1, <1>3, MeaningIs, EmptyIs
  <2>2. <<>> \in Seq(Words)
    BY EmptyIn
  <2> QED
    BY <2>1, <2>2, EmptyIsPlain
<1>4. CASE StartsTrailing(line) /\ PrefixEnd(line) <= Len(line)
  <2>1. PICK p, x : /\ p = SubSeq(line, 2, PrefixEnd(line) - 1)
                    /\ x = From(line, PrefixEnd(line) + 1)
    OBVIOUS
  <2>2. p \in Texts /\ x \in Texts /\ m = Made(p, WordsOf(x))
    BY <1>1, <1>4, <2>1, MeaningIs
  <2>3. Plain(p)
    BY <1>1, <1>4, <2>1, <2>2, PrefixIsPlain
  <2>4. PICK ws \in Seq(Words) : ws = WordsOf(x)
    BY <2>2, AllFine DEF Fine
  <2> QED
    BY <2>2, <2>3, <2>4
<1>5. PrefixEnd(line) > Len(line) \/ PrefixEnd(line) <= Len(line)
  <2>1. line \in Seq(Chars \ {"LF"})
    BY DEF Texts
  <2>2. Len(line) \in Nat
    BY TextIs
  <2>3. PrefixEnd(line) \in 1 .. Len(line) + 1
    BY <2>1, FindIs DEF PrefixEnd
  <2> QED
    BY <2>2, <2>3
<1> QED
  BY <1>2, <1>3, <1>4, <1>5

LEMMA MessagesAreMeant == Typed /\ LinesInv => fullMsg \in Seq(Meant)
<1> SUFFICES ASSUME Typed, LinesInv PROVE fullMsg \in Seq(Meant)
  OBVIOUS
<1>1. \E d \in Buffers : fullMsg = Meanings(d)
  <2>1. CASE pc = "line"
    BY <2>1 DEF LinesInv, Buffers
  <2>2. CASE pc # "line"
    <3>1. PICK b \in Seq(Chars), line \in Texts, prefix \in Texts, r \in Texts :
            Reading(b, line, prefix, r)
      BY <2>2 DEF LinesInv
    <3>2. Closed(b) /\ fullMsg = Meanings(b)
      BY <3>1 DEF Reading
    <3> QED
      BY <3>2 DEF Buffers
  <2> QED
    BY <2>1, <2>2
<1> QED
  BY <1>1, MeaningsType

\* What a handler is given, any client could have sent: written as a line and
\* parsed again, a message is the same, for messages of any length.
THEOREM RoundTrip == Spec => []WrittenBackTheSame
<1>1. Typed /\ LinesInv => WrittenBackTheSame
  <2> SUFFICES ASSUME Typed, LinesInv, NEW k \in DOMAIN fullMsg
               PROVE  Meaning(Written(fullMsg[k])) = fullMsg[k]
    BY DEF WrittenBackTheSame
  <2>1. PICK M : M = Meant /\ fullMsg \in Seq(M)
    BY MessagesAreMeant
  <2>2. fullMsg[k] \in M
    BY <2>1
  <2>3. PICK m \in Meant : m = fullMsg[k]
    BY <2>1, <2>2
  <2>4. PICK p : Plain(p) /\ \E ws \in Seq(Words) : m = Made(p, ws)
    BY MeantIs
  <2>5. PICK ws \in Seq(Words) : m = Made(p, ws)
    BY <2>4
  <2>6. Meaning(Written(Made(p, ws))) = Made(p, ws)
    BY <2>4, WrittenMade
  <2> QED
    BY <2>3, <2>5, <2>6
<1> QED
  BY <1>1, ParserInvariant, PTL

-----------------------------------------------------------------------------
(* Lines that end with a carriage return *)

Return == "CR"

LEMMA ReturnIs ==
  /\ <<Return>> \in Texts /\ BlankText(<<Return>>)
  /\ Return # Space /\ Return # "LF" /\ Return \in Chars \ {"LF"}
<1>1. PICK P, r : P = Chars \ {"LF"} /\ r = Return /\ r \in P
  BY CharTypes DEF Return
<1>2. <<r>> \in Seq(P) /\ Len(<<r>>) = 1 /\ <<r>>[1] = r
  BY <1>1, OneElement
<1>3. r \in Blanks
  BY <1>1, Zenon DEF Blanks, Return
<1>4. BlankText(<<r>>)
  <2>1. \A k \in 1 .. 1 : k = 1
    OBVIOUS
  <2> QED
    BY <1>2, <1>3, <2>1, Zenon DEF BlankText
<1>5. Return # Space
  BY Zenon DEF Return, Space
<1>6. Return # "LF"
  BY DEF Return
<1> QED
  BY <1>1, <1>2, <1>4, <1>5, <1>6 DEF Texts

EndsWithReturn(line, l) == line = l \o <<Return>>

\* Lines that have the same prefix, if any, and the same words.
LEMMA SameMeaning ==
  ASSUME NEW l \in Texts, l # <<>>, NEW line, EndsWithReturn(line, l)
  PROVE  Meaning(line) = Meaning(l)
<1>1. PICK P : P = Chars \ {"LF"} /\ Texts = Seq(P)
  BY DEF Texts
<1>2. PICK c : c = <<Return>>
  OBVIOUS
<1>3. c \in Texts /\ BlankText(c) /\ Len(c) = 1 /\ c[1] = Return
  BY <1>2, ReturnIs
<1>4. PICK n \in Nat \ {0} : n = Len(l)
  BY <1>1
<1>5. /\ line \in Texts /\ Len(line) = n + 1 /\ line[n + 1] = Return
      /\ \A k \in 1 .. n : line[k] = l[k]
  <2>1. line = l \o c
    BY <1>2 DEF EndsWithReturn
  <2>2. /\ l \o c \in Texts /\ Len(l \o c) = Len(l) + Len(c)
        /\ \A k \in 1 .. Len(l) : (l \o c)[k] = l[k]
        /\ \A k \in 1 .. Len(c) : (l \o c)[Len(l) + k] = c[k]
    BY <1>3, TextConcat
  <2>3. 1 \in 1 .. 1
    OBVIOUS
  <2> QED
    BY <1>3, <1>4, <2>1, <2>2, <2>3
<1>6. \A s \in Texts : WordsOf(s \o c) = WordsOf(s)
  BY <1>3, AllFine, WordsOfBlank DEF Fine
<1>7. PICK e, f : e = PrefixEnd(l) /\ f = PrefixEnd(line)
  OBVIOUS
<1>8. /\ e \in 1 .. n + 1
      /\ \A i \in 1 .. n : i < e => l[i] \notin {Space}
      /\ e # n + 1 => l[e] \in {Space}
  <2>1. e = Find(l, {Space})
    BY <1>7, Zenon DEF PrefixEnd, Space
  <2>2. l \in Seq(P)
    BY <1>1
  <2> QED
    BY <1>4, <2>1, <2>2, FindIs
<1>9. PICK N \in Nat : N = n + 1
  OBVIOUS
<1>10. /\ f \in 1 .. N + 1
       /\ \A i \in 1 .. N : i < f => line[i] \notin {Space}
       /\ f # N + 1 => line[f] \in {Space}
  <2>1. f = Find(line, {Space})
    BY <1>7, Zenon DEF PrefixEnd, Space
  <2>2. line \in Seq(P)
    BY <1>1, <1>5
  <2>3. Len(line) = N
    BY <1>5, <1>9
  <2> QED
    BY <2>1, <2>2, <2>3, FindIs
<1>11. line # <<>> /\ (StartsTrailing(line) <=> StartsTrailing(l))
  <2>1. line # <<>>
    BY <1>5, TextIs
  <2>2. Head(line) = line[1] /\ Head(l) = l[1]
    BY <1>1, <1>5, <2>1
  <2>3. line[1] = l[1]
    BY <1>5
  <2> QED
    BY <2>1, <2>2, <2>3 DEF StartsTrailing
<1>12. CASE ~ StartsTrailing(l)
  BY <1>2, <1>5, <1>6, <1>11, <1>12, MeaningIs DEF EndsWithReturn
<1>13. CASE StartsTrailing(l) /\ e = n + 1
  <2>1. f = N + 1
    <3>1. SUFFICES ASSUME f # N + 1 PROVE FALSE
      OBVIOUS
    <3>2. f \in 1 .. N /\ line[f] = Space
      <4>1. f \in 1 .. N + 1 /\ line[f] \in {Space}
        BY <1>10, <3>1
      <4>2. f \in 1 .. N
        BY <3>1, <4>1
      <4> QED
        BY <4>1, <4>2
    <3>3. f # n + 1
      BY <1>5, <3>2, ReturnIs
    <3>4. f \in 1 .. n /\ f < e
      BY <1>13, <1>9, <3>2, <3>3
    <3> QED
      BY <1>5, <1>8, <3>2, <3>4
  <2>2. e > Len(l) /\ f > Len(line)
    BY <1>4, <1>5, <1>13, <1>9, <2>1
  <2> QED
    BY <1>5, <1>7, <1>11, <1>13, <2>2, MeaningIs
<1>14. CASE StartsTrailing(l) /\ e # n + 1
  <2>1. e \in 1 .. n /\ l[e] = Space
    BY <1>8, <1>14
  <2>2. f = e
    <3>1. ~ (e < f)
      <4>1. e \in 1 .. N /\ line[e] = Space
        BY <1>5, <1>9, <2>1
      <4> QED
        BY <1>10, <4>1
    <3>2. ~ (f < e)
      <4>1. SUFFICES ASSUME f < e PROVE FALSE
        OBVIOUS
      <4>2. f \in 1 .. n /\ f # N + 1
        BY <1>10, <1>9, <2>1, <4>1
      <4> QED
        BY <1>5, <1>8, <1>10, <4>1, <4>2
    <3> QED
      BY <1>10, <2>1, <3>1, <3>2
  <2>3. e <= Len(l) /\ f <= Len(line)
    BY <1>4, <1>5, <2>1, <2>2
  <2>4. /\ From(l, e + 1) \in Texts
        /\ Meaning(l) = Made(SubSeq(l, 2, e - 1), WordsOf(From(l, e + 1)))
        /\ Meaning(line) = Made(SubSeq(line, 2, e - 1), WordsOf(From(line, e + 1)))
    <3>1. /\ From(l, PrefixEnd(l) + 1) \in Texts
          /\ Meaning(l) = Made(SubSeq(l, 2, PrefixEnd(l) - 1),
                               WordsOf(From(l, PrefixEnd(l) + 1)))
      BY <1>7, <1>14, <2>3, MeaningIs
    <3>2. Meaning(line) = Made(SubSeq(line, 2, PrefixEnd(line) - 1),
                               WordsOf(From(line, PrefixEnd(line) + 1)))
      BY <1>5, <1>7, <1>11, <1>14, <2>3, MeaningIs
    <3> QED
      BY <1>7, <2>2, <3>1, <3>2, Zenon
  <2>5. l \in Seq(P) /\ line \in Seq(P) /\ n <= Len(line)
    BY <1>1, <1>5
  <2>6. SubSeq(line, 2, e - 1) = SubSeq(l, 2, e - 1)
    <3>1. PICK i \in 1 .. n + 1, j \in 0 .. n : i = 2 /\ j = e - 1
      BY <2>1
    <3>2. SubSeq(line, i, j) = SubSeq(l, i, j)
      BY <1>4, <1>5, <2>5, SameStart
    <3> QED
      BY <3>1, <3>2
  <2>7. From(line, e + 1) = From(l, e + 1) \o c
    <3>1. PICK x, y : x = SubSeq(l, e + 1, n) /\ y = SubSeq(line, e + 1, n + 1)
      OBVIOUS
    <3>2. x \in Seq(P) /\ Len(x) = n - e /\ \A k \in 1 .. n - e : x[k] = l[e + k]
      BY <1>4, <2>1, <2>5, <3>1
    <3>3. /\ y \in Seq(P) /\ Len(y) = n + 1 - e
          /\ \A k \in 1 .. n + 1 - e : y[k] = line[e + k]
      BY <1>5, <2>1, <2>5, <3>1
    <3>4. PICK m \in Nat : m = n - e /\ m + 1 = n + 1 - e
      <4>1. n - e \in Nat /\ n - e + 1 = n + 1 - e
        BY <2>1
      <4> QED
        BY <4>1
    <3>5. PICK z : z = x \o c
      OBVIOUS
    <3>6. /\ z \in Seq(P) /\ Len(z) = m + 1 /\ z[m + 1] = Return
          /\ \A k \in 1 .. m : z[k] = x[k]
      <4>1. x \in Seq(P) /\ c \in Seq(P)
        BY <1>1, <1>3, <3>2
      <4>2. /\ x \o c \in Seq(P) /\ Len(x \o c) = Len(x) + Len(c)
            /\ \A k \in 1 .. Len(x) : (x \o c)[k] = x[k]
            /\ \A k \in 1 .. Len(c) : (x \o c)[Len(x) + k] = c[k]
        BY <4>1, Concat
      <4>3. 1 \in 1 .. 1
        OBVIOUS
      <4> QED
        BY <1>3, <3>2, <3>4, <3>5, <4>2, <4>3
    <3>7. ASSUME NEW k \in 1 .. m + 1 PROVE z[k] = y[k]
      <4>1. CASE k \in 1 .. m
        <5>1. e + k \in 1 .. n
          BY <2>1, <3>4, <4>1
        <5>2. line[e + k] = l[e + k]
          BY <1>5, <5>1
        <5>3. x[k] = l[e + k] /\ y[k] = line[e + k]
          BY <3>2, <3>3, <3>4, <4>1
        <5> QED
          BY <3>6, <4>1, <5>2, <5>3
      <4>2. CASE k = m + 1
        <5>1. e + k = n + 1 /\ k \in 1 .. n + 1 - e
          BY <2>1, <3>4, <4>2
        <5> QED
          BY <1>5, <3>3, <3>6, <4>2, <5>1
      <4> QED
        BY <4>1, <4>2
    <3>8. y = z
      BY <3>3, <3>4, <3>6, <3>7, SameSequence
    <3>9. From(l, e + 1) = x /\ From(line, e + 1) = y
      BY <1>4, <1>5, <3>1, Zenon DEF From
    <3> QED
      BY <3>5, <3>8, <3>9
  <2>8. WordsOf(From(line, e + 1)) = WordsOf(From(l, e + 1))
    BY <1>6, <2>4, <2>7
  <2> QED
    BY <2>4, <2>6, <2>8
<1> QED
  BY <1>12, <1>13, <1>14

LEMMA OnlyReturn == Meaning(<<Return>>).cmd = <<>>
<1>1. PICK c \in Texts : c = <<Return>> /\ BlankText(c)
  BY ReturnIs
<1>2. c # <<>> /\ ~ StartsTrailing(c)
  <2>1. Return # Colon
    BY Zenon DEF Return, Colon
  <2>2. Head(c) = Return /\ c # <<>>
    BY <1>1
  <2> QED
    BY <2>1, <2>2, Zenon DEF StartsTrailing, Colon
<1>3. WordsOf(c) = <<>>
  <2>1. PICK z \in Texts : z = <<>>
    BY CharTypes
  <2>2. Even(z) /\ WordsOf(z) = z
    BY <2>1, NoWordsType
  <2>3. WordsOf(z \o c) = WordsOf(z)
    BY <1>1, <2>2, WordsOfBlank
  <2> QED
    BY <2>1, <2>2, <2>3, EmptyConcat
<1>4. Meaning(c) = Made(<<>>, <<>>)
  BY <1>2, <1>3, MeaningIs
<1>5. PICK m, z, b : m = Meaning(c) /\ z = <<>> /\ b = No /\ m = Parts(z, z, z, z, b)
  BY <1>4, MadeOfNothing, Zenon
<1>6. m.cmd = z
  BY <1>5 DEF Parts
<1> QED
  BY <1>1, <1>5, <1>6

\* The line without the carriage return at its end.
Chomped(line) == IF line # <<>> /\ line[Len(line)] = Return
                 THEN SubSeq(line, 1, Len(line) - 1) ELSE line

LEMMA ChompedIs ==
  ASSUME NEW line \in Texts
  PROVE  \/ Chomped(line) = line /\ (line = <<>> \/ line[Len(line)] # Return)
         \/ Chomped(line) \in Texts /\ EndsWithReturn(line, Chomped(line))
<1>1. PICK P : P = Chars \ {"LF"} /\ Texts = Seq(P)
  BY DEF Texts
<1>2. CASE line # <<>> /\ line[Len(line)] = Return
  <2>1. PICK n \in Nat : Len(line) = n + 1
    <3>1. Len(line) \in Nat \ {0}
      BY <1>1, <1>2
    <3>2. Len(line) - 1 \in Nat /\ Len(line) = Len(line) - 1 + 1
      BY <3>1
    <3> QED
      BY <3>2
  <2>2. PICK l : l = SubSeq(line, 1, n)
    OBVIOUS
  <2>3. l \in Seq(P) /\ Len(l) = n /\ \A k \in 1 .. n : l[k] = line[k]
    BY <1>1, <2>1, <2>2
  <2>4. PICK c : c = <<Return>>
    OBVIOUS
  <2>5. c \in Seq(P) /\ Len(c) = 1 /\ c[1] = Return
    BY <1>1, <2>4, ReturnIs, OneElement
  <2>6. PICK x : x = l \o c
    OBVIOUS
  <2>7. /\ x \in Seq(P) /\ Len(x) = n + 1
        /\ \A k \in 1 .. n : x[k] = l[k]
        /\ x[n + 1] = Return
    <3>1. /\ l \o c \in Seq(P) /\ Len(l \o c) = Len(l) + Len(c)
          /\ \A k \in 1 .. Len(l) : (l \o c)[k] = l[k]
          /\ \A k \in 1 .. Len(c) : (l \o c)[Len(l) + k] = c[k]
      <4>1. l \in Seq(P) /\ c \in Seq(P)
        BY <2>3, <2>5
      <4> QED
        BY <4>1, Concat
    <3>2. 1 \in 1 .. 1
      OBVIOUS
    <3> QED
      BY <2>3, <2>5, <2>6, <3>1, <3>2
  <2>8. \A k \in 1 .. n + 1 : x[k] = line[k]
    BY <1>2, <2>1, <2>3, <2>7
  <2>9. line = x
    BY <1>1, <2>1, <2>7, <2>8, SameSequence
  <2>10. Chomped(line) = l
    <3>1. Len(line) - 1 = n
      BY <2>1
    <3> QED
      BY <1>2, <2>2, <3>1 DEF Chomped
  <2> QED
    BY <1>1, <2>3, <2>4, <2>6, <2>9, <2>10 DEF EndsWithReturn
<1>3. CASE ~ (line # <<>> /\ line[Len(line)] = Return)
  BY <1>3 DEF Chomped
<1> QED
  BY <1>2, <1>3

\* The places that stay: all but a carriage return before the end of a line.
Kept(b) == {n \in DOMAIN b : ~ (b[n] = Return /\ b[n + 1] = "LF")}

LEMMA WithoutCRIs == ASSUME NEW b PROVE WithoutCR(b) = Selected(b, Kept(b))
  BY Zenon DEF WithoutCR, Kept, Return

OneMore(P, s, e, at) ==
  s \in Seq(P) /\ e \in P /\ at \in SUBSET (1 .. Len(s))
    => Selected(Append(s, e), at \cup {Len(s) + 1}) = Append(Selected(s, at), e)

LEMMA SelectedOneMore == \A P, s, e, at : OneMore(P, s, e, at)
<1>1. ASSUME NEW P, NEW s \in Seq(P), NEW e \in P, NEW at \in SUBSET (1 .. Len(s))
      PROVE  Selected(Append(s, e), at \cup {Len(s) + 1}) = Append(Selected(s, at), e)
  <2>1. PICK n \in Nat : n = Len(s)
    BY SequenceIs
  <2>2. at \in SUBSET (1 .. n)
    BY <2>1
  <2>3. /\ Selected(Append(s, e), at) = Selected(s, at)
        /\ Selected(Append(s, e), at \cup {n + 1}) = Append(Selected(s, at), e)
    BY <2>1, <2>2, SelectedMore
  <2> QED
    BY <2>1, <2>3
<1> QED
  BY <1>1 DEF OneMore

\* Where all is selected, nothing changes.
AllSelected(P, s, at, n) ==
  \A t \in Seq(P) : Selected(s \o t, at \cup (n + 1 .. n + Len(t))) = Selected(s, at) \o t

LEMMA SelectedAll ==
  ASSUME NEW P, NEW s \in Seq(P), NEW n \in Nat, n = Len(s), NEW at \in SUBSET (1 .. n)
  PROVE  AllSelected(P, s, at, n)
<1>1. PICK r \in Seq(P) : r = Selected(s, at)
  BY SelectedType
<1> DEFINE Holds(t) == Selected(s \o t, at \cup (n + 1 .. n + Len(t))) = r \o t
           T == {t \in Seq(P) : Holds(t)}
<1>2. <<>> \in T
  <2>1. PICK z \in Seq(P) : z = <<>>
    BY EmptyIn
  <2>2. s \o z = s /\ r \o z = r /\ Len(z) = 0
    BY <2>1
  <2>3. at \cup (n + 1 .. n + 0) = at
    OBVIOUS
  <2>4. Selected(s \o z, at \cup (n + 1 .. n + Len(z))) = r \o z
    BY <1>1, <2>2, <2>3
  <2> QED
    BY <2>1, <2>4
<1>3. ASSUME NEW t \in T, NEW e \in P PROVE Append(t, e) \in T
  <2>1. t \in Seq(P) /\ Holds(t)
    OBVIOUS
  <2>2. PICK m \in Nat : m = Len(t)
    BY <2>1, SequenceIs
  <2>3. PICK u : u = Append(t, e)
    OBVIOUS
  <2>4. u \in Seq(P) /\ Len(u) = m + 1
    BY <2>1, <2>2, <2>3, Append1
  <2>5. PICK v \in Seq(P) : v = s \o t /\ Len(v) = n + m
    <3>1. s \o t \in Seq(P) /\ Len(s \o t) = Len(s) + Len(t)
      BY <2>1, Concat
    <3> QED
      BY <2>2, <3>1
  <2>6. s \o u = Append(v, e) /\ r \o u = Append(r \o t, e)
    <3>1. ASSUME NEW x \in Seq(P) PROVE x \o Append(t, e) = Append(x \o t, e)
      BY <2>1
    <3> QED
      BY <2>3, <2>5, <3>1
  <2>7. PICK N \in Nat : N = n + m
    <3>1. n + m \in Nat
      OBVIOUS
    <3> QED
      BY <3>1
  <2>8. PICK bt : bt = at \cup (n + 1 .. N)
    OBVIOUS
  <2>9. bt \in SUBSET (1 .. N)
    <3>1. \A k \in at : k \in 1 .. N
      BY <2>7
    <3>2. \A k \in n + 1 .. N : k \in 1 .. N
      OBVIOUS
    <3> QED
      BY <2>8, <3>1, <3>2
  <2>10. Selected(Append(v, e), bt \cup {N + 1}) = Append(Selected(v, bt), e)
    <3>1. OneMore(P, v, e, bt)
      BY SelectedOneMore
    <3>2. N = Len(v) /\ v \in Seq(P) /\ e \in P
      BY <2>5, <2>7
    <3> QED
      BY <2>9, <3>1, <3>2 DEF OneMore
  <2>11. at \cup (n + 1 .. n + (m + 1)) = bt \cup {N + 1}
    BY <2>7, <2>8
  <2>12. Selected(v, bt) = r \o t
    BY <2>1, <2>2, <2>5, <2>7, <2>8
  <2>13. Selected(s \o u, at \cup (n + 1 .. n + Len(u))) = r \o u
    BY <2>4, <2>6, <2>10, <2>11, <2>12
  <2> QED
    BY <2>3, <2>4, <2>13
<1>4. T \in SUBSET Seq(P)
  OBVIOUS
<1> HIDE DEF T
<1>5. T = Seq(P)
  BY <1>2, <1>3, <1>4, SequenceInduction
<1> QED
  BY <1>1, <1>5 DEF T, AllSelected

\* Of m characters of the line, the first q stay.
Stays(line, m, q) ==
  \/ q = m /\ (m = 0 \/ line[m] # Return)
  \/ m = q + 1 /\ line[m] = Return

Grows(all, at, n, m, q) == all = (at \cup (n + 1 .. n + q)) \cup {n + m + 1}

LEMMA KeptMore ==
  ASSUME NEW d \in Buffers, NEW line \in Texts,
         NEW n \in Nat, NEW m \in Nat, NEW q \in Nat, n = Len(d), m = Len(line),
         Stays(line, m, q)
  PROVE  /\ Kept(d) \in SUBSET (1 .. n)
         /\ Grows(Kept(WithLine(d, line)), Kept(d), n, m, q)
<1>1. d \in Seq(Chars) /\ Closed(d) /\ DOMAIN d = 1 .. n
  <2>1. d \in Seq(Chars) /\ Closed(d)
    BY DEF Buffers
  <2> QED
    BY <2>1, SequenceIs
<1>2. PICK b : b = WithLine(d, line)
  OBVIOUS
<1>3. /\ b \in Seq(Chars) /\ Len(b) = n + m + 1
      /\ \A k \in 1 .. n : b[k] = d[k]
      /\ \A k \in 1 .. m : b[n + k] = line[k]
      /\ b[n + m + 1] = "LF"
  BY <1>1, <1>2, WithLineIs
<1>4. DOMAIN b = 1 .. n + m + 1
  BY <1>3, SequenceIs
<1>5. \A k \in 1 .. m : line[k] # "LF"
  <2>1. line \in Seq(Chars \ {"LF"})
    BY DEF Texts
  <2> QED
    BY <2>1, ElementOf
<1>6. Kept(d) \in SUBSET (1 .. n)
  BY <1>1 DEF Kept
<1>7. ASSUME NEW k \in 1 .. n PROVE k \in Kept(b) <=> k \in Kept(d)
  <2>1. k \in DOMAIN b /\ k \in DOMAIN d /\ b[k] = d[k]
    BY <1>1, <1>3, <1>4
  <2>2. CASE k = n
    <3>1. d[k] = "LF"
      <4>1. d # <<>>
        BY <1>1, <2>2, SequenceIs
      <4> QED
        BY <1>1, <2>2, <4>1 DEF Closed
    <3>2. d[k] # Return
      BY <3>1, ReturnIs
    <3> QED
      BY <2>1, <3>2 DEF Kept
  <2>3. CASE k # n
    <3>1. k + 1 \in 1 .. n
      BY <2>3
    <3>2. b[k + 1] = d[k + 1]
      BY <1>3, <3>1
    <3> QED
      BY <2>1, <3>2 DEF Kept
  <2> QED
    BY <2>2, <2>3
<1>8. ASSUME NEW i \in 1 .. m, NEW k, k = n + i PROVE k \in Kept(b) <=> i <= q
  <2>1. k \in DOMAIN b /\ b[k] = line[i]
    BY <1>3, <1>4, <1>8
  <2>2. CASE i = m
    <3>1. b[k + 1] = "LF"
      BY <1>3, <1>8, <2>2
    <3>2. i <= q <=> line[i] # Return
      BY <2>2 DEF Stays
    <3> QED
      BY <2>1, <3>1, <3>2 DEF Kept
  <2>3. CASE i # m
    <3>1. PICK j \in 1 .. m : j = i + 1 /\ k + 1 = n + j
      <4>1. i + 1 \in 1 .. m /\ k + 1 = n + (i + 1)
        BY <1>8, <2>3
      <4> QED
        BY <4>1
    <3>2. b[k + 1] # "LF"
      BY <1>3, <1>5, <3>1
    <3>3. i <= q
      BY <2>3 DEF Stays
    <3> QED
      BY <2>1, <3>2, <3>3 DEF Kept
  <2> QED
    BY <2>2, <2>3
<1>9. n + m + 1 \in Kept(b)
  <2>1. n + m + 1 \in DOMAIN b
    BY <1>4
  <2>2. b[n + m + 1] # Return
    BY <1>3, ReturnIs
  <2> QED
    BY <2>1, <2>2 DEF Kept
<1>10. Kept(b) \in SUBSET (1 .. n + m + 1)
  BY <1>4 DEF Kept
<1>11. ASSUME NEW k
       PROVE  k \in Kept(b) <=> k \in (Kept(d) \cup (n + 1 .. n + q)) \cup {n + m + 1}
  <2>1. CASE k \in 1 .. n
    <3>1. k \notin n + 1 .. n + q /\ k # n + m + 1
      BY <2>1
    <3> QED
      BY <1>7, <2>1, <3>1
  <2>2. CASE k \in n + 1 .. n + m
    <3>1. PICK i \in 1 .. m : k = n + i
      <4>1. k - n \in 1 .. m /\ k = n + (k - n)
        BY <2>2
      <4> QED
        BY <4>1
    <3>2. k \in n + 1 .. n + q <=> i <= q
      BY <3>1 DEF Stays
    <3>3. k \notin Kept(d) /\ k # n + m + 1
      BY <1>6, <2>2
    <3> QED
      BY <1>8, <3>1, <3>2, <3>3
  <2>3. CASE k = n + m + 1
    BY <1>9, <2>3
  <2>4. CASE k \notin 1 .. n + m + 1
    <3>1. k \notin n + 1 .. n + q
      BY <2>4 DEF Stays
    <3> QED
      BY <1>6, <1>10, <2>4, <3>1
  <2> QED
    BY <2>1, <2>2, <2>3, <2>4
<1> QED
  BY <1>2, <1>6, <1>11 DEF Grows

NoMore(P, s, e, at) ==
  s \in Seq(P) /\ e \in P /\ at \in SUBSET (1 .. Len(s))
    => Selected(Append(s, e), at) = Selected(s, at)

LEMMA SelectedNoMore == \A P, s, e, at : NoMore(P, s, e, at)
<1>1. ASSUME NEW P, NEW s \in Seq(P), NEW e \in P, NEW at \in SUBSET (1 .. Len(s))
      PROVE  Selected(Append(s, e), at) = Selected(s, at)
  <2>1. PICK n \in Nat : n = Len(s)
    BY SequenceIs
  <2>2. at \in SUBSET (1 .. n)
    BY <2>1
  <2>3. /\ Selected(Append(s, e), at) = Selected(s, at)
        /\ Selected(Append(s, e), at \cup {n + 1}) = Append(Selected(s, at), e)
    BY <2>1, <2>2, SelectedMore
  <2> QED
    BY <2>3
<1> QED
  BY <1>1 DEF NoMore

LEMMA AppendConcat ==
  ASSUME NEW P, NEW s \in Seq(P), NEW e \in P PROVE s \o <<e>> = Append(s, e)
  OBVIOUS

LEMMA WithoutCRMore ==
  ASSUME NEW d \in Buffers, NEW line \in Texts
  PROVE  /\ WithoutCR(d) \in Seq(Chars) /\ Chomped(line) \in Texts
         /\ WithoutCR(WithLine(d, line)) = WithLine(WithoutCR(d), Chomped(line))
<1>1. PICK P : P = Chars /\ d \in Seq(P)
  BY DEF Buffers
<1>2. PICK n \in Nat : n = Len(d)
  BY <1>1, SequenceIs
<1>3. PICK l \in Texts : /\ l = Chomped(line)
                         /\ \/ l = line /\ (line = <<>> \/ line[Len(line)] # Return)
                            \/ EndsWithReturn(line, l)
  BY ChompedIs
<1>4. \A t \in Texts : t \in Seq(P)
  <2>1. PICK Q : Q = Chars \ {"LF"} /\ Q \subseteq P
    BY <1>1
  <2>2. \A t \in Seq(Q) : t \in Seq(P)
    BY <2>1, SeqMonotonic
  <2> QED
    BY <2>1, <2>2 DEF Texts
<1>5. PICK m \in Nat, q \in Nat : m = Len(line) /\ q = Len(l)
  BY TextIs
<1>6. PICK at : at = Kept(d)
  OBVIOUS
<1>7. at \in SUBSET (1 .. n)
  BY <1>1, <1>2, <1>6, SequenceIs DEF Kept
<1>8. PICK x \in Seq(P) : x = WithoutCR(d) /\ x = Selected(d, at)
  <2>1. Selected(d, at) \in Seq(P)
    BY <1>1, <1>2, <1>7, SelectedType
  <2> QED
    BY <1>6, <2>1, WithoutCRIs
<1>9. PICK lf, r \in P : lf = "LF" /\ r = Return
  BY <1>1, CharTypes, ReturnIs
<1>10. PICK bt : bt = at \cup (n + 1 .. n + q)
  OBVIOUS
<1>11. PICK y \in Seq(P) : y = d \o l /\ Len(y) = n + q
  BY <1>1, <1>2, <1>4, <1>5, Concat
<1>12. Selected(y, bt) = x \o l
  <2>1. d \in Seq(P) /\ l \in Seq(P) /\ n = Len(d)
    BY <1>1, <1>2, <1>4
  <2>2. AllSelected(P, d, at, n)
    BY <1>7, <2>1, SelectedAll
  <2>3. Selected(d \o l, at \cup (n + 1 .. n + Len(l))) = Selected(d, at) \o l
    BY <2>1, <2>2 DEF AllSelected
  <2> QED
    BY <1>5, <1>8, <1>10, <1>11, <2>3
<1>13. PICK b : b = WithLine(d, line)
  OBVIOUS
<1>14. WithLine(x, l) = Append(x \o l, lf)
  <2>1. x \o l \in Seq(P)
    BY <1>4, Concat
  <2> QED
    BY <1>9, <2>1, AppendConcat DEF WithLine
<1>15. bt \in SUBSET (1 .. n + q)
  <2>1. \A k \in at : k \in 1 .. n + q
    BY <1>7
  <2>2. \A k \in n + 1 .. n + q : k \in 1 .. n + q
    OBVIOUS
  <2> QED
    BY <1>10, <2>1, <2>2
<1>16. CASE l = line /\ (line = <<>> \/ line[Len(line)] # Return)
  <2>1. Kept(b) = bt \cup {n + m + 1}
    <3>1. Stays(line, m, q)
      BY <1>5, <1>16, TextIs DEF Stays
    <3>2. n = Len(d) /\ m = Len(line)
      BY <1>2, <1>5
    <3>3. Grows(Kept(WithLine(d, line)), Kept(d), n, m, q)
      BY <3>1, <3>2, KeptMore
    <3> QED
      BY <1>6, <1>10, <1>13, <3>3 DEF Grows
  <2>2. b = Append(y, lf)
    BY <1>9, <1>11, <1>13, <1>16, AppendConcat DEF WithLine
  <2>3. Selected(Append(y, lf), bt \cup {Len(y) + 1}) = Append(Selected(y, bt), lf)
    <3>1. OneMore(P, y, lf, bt)
      BY SelectedOneMore
    <3>2. bt \in SUBSET (1 .. Len(y))
      BY <1>11, <1>15
    <3> QED
      BY <3>1, <3>2 DEF OneMore
  <2>4. n + m + 1 = Len(y) + 1
    BY <1>5, <1>11, <1>16
  <2> QED
    BY <1>3, <1>8, <1>12, <1>13, <1>14, <1>1, <2>1, <2>2, <2>3, <2>4, WithoutCRIs
<1>17. CASE EndsWithReturn(line, l)
  <2>1. line = Append(l, r) /\ m = q + 1 /\ line[m] = Return
    <3>1. line = Append(l, r)
      BY <1>4, <1>9, <1>17, AppendConcat DEF EndsWithReturn
    <3>2. l \in Seq(P)
      BY <1>4
    <3> QED
      BY <1>5, <1>9, <3>1, <3>2, Append1
  <2>2. Kept(b) = bt \cup {n + m + 1}
    <3>1. Stays(line, m, q)
      BY <2>1 DEF Stays
    <3>2. n = Len(d) /\ m = Len(line)
      BY <1>2, <1>5
    <3>3. Grows(Kept(WithLine(d, line)), Kept(d), n, m, q)
      BY <3>1, <3>2, KeptMore
    <3> QED
      BY <1>6, <1>10, <1>13, <3>3 DEF Grows
  <2>3. PICK v \in Seq(P) : v = Append(y, r) /\ Len(v) = n + q + 1
    <3>1. Append(y, r) \in Seq(P) /\ Len(Append(y, r)) = Len(y) + 1
      BY Append1
    <3> QED
      BY <1>11, <3>1
  <2>4. d \o line = v
    <3>1. l \in Seq(P)
      BY <1>4
    <3>2. ASSUME NEW z \in Seq(P), NEW e \in P PROVE d \o Append(z, e) = Append(d \o z, e)
      BY <1>1
    <3> QED
      BY <1>11, <2>1, <2>3, <3>1, <3>2
  <2>5. b = Append(v, lf)
    BY <1>9, <1>13, <2>4, AppendConcat DEF WithLine
  <2>6. bt \in SUBSET (1 .. Len(v))
    BY <1>15, <2>3
  <2>7. Selected(Append(v, lf), bt \cup {Len(v) + 1}) = Append(Selected(v, bt), lf)
    <3>1. OneMore(P, v, lf, bt)
      BY SelectedOneMore
    <3> QED
      BY <2>6, <3>1 DEF OneMore
  <2>8. Selected(v, bt) = Selected(y, bt)
    <3>1. NoMore(P, y, r, bt)
      BY SelectedNoMore
    <3>2. bt \in SUBSET (1 .. Len(y))
      BY <1>11, <1>15
    <3> QED
      BY <2>3, <3>1, <3>2 DEF NoMore
  <2>9. n + m + 1 = Len(v) + 1
    BY <2>1, <2>3
  <2> QED
    BY <1>3, <1>8, <1>12, <1>13, <1>14, <1>1, <2>2, <2>5, <2>7, <2>8, <2>9, WithoutCRIs
<1> QED
  BY <1>3, <1>16, <1>17

LEMMA CommandsMore ==
  ASSUME NEW P, NEW ms \in Seq(P), NEW m \in P
  PROVE  /\ m.cmd = <<>> => Commands(Append(ms, m)) = Commands(ms)
         /\ m.cmd # <<>> => Commands(Append(ms, m)) = Append(Commands(ms), m)
<1>1. PICK n \in Nat : n = Len(ms) /\ DOMAIN ms = 1 .. n
  BY SequenceIs
<1>2. PICK ns : ns = Append(ms, m)
  OBVIOUS
<1>3. ns \in Seq(P) /\ Len(ns) = n + 1 /\ ns[n + 1] = m /\ \A k \in 1 .. n : ns[k] = ms[k]
  BY <1>1, <1>2, Append1
<1>4. DOMAIN ns = 1 .. n + 1
  BY <1>3, SequenceIs
<1>5. PICK at : at = {k \in DOMAIN ms : ms[k].cmd # <<>>}
  OBVIOUS
<1>6. PICK bt : bt = {k \in DOMAIN ns : ns[k].cmd # <<>>}
  OBVIOUS
<1>7. at \in SUBSET (1 .. n) /\ at \in SUBSET (1 .. Len(ms))
  BY <1>1, <1>5
<1>8. ASSUME NEW k PROVE k \in bt <=> (k \in at \/ (k = n + 1 /\ m.cmd # <<>>))
  <2>1. CASE k \in 1 .. n
    BY <1>1, <1>3, <1>4, <1>5, <1>6, <2>1
  <2>2. CASE k = n + 1
    BY <1>1, <1>3, <1>4, <1>5, <1>6, <2>2
  <2>3. CASE k \notin 1 .. n + 1
    BY <1>1, <1>4, <1>5, <1>6, <2>3
  <2> QED
    BY <2>1, <2>2, <2>3
<1>9. Commands(ms) = Selected(ms, at) /\ Commands(ns) = Selected(ns, bt)
  BY <1>5, <1>6, Zenon DEF Commands
<1>10. Selected(ns, at) = Selected(ms, at)
  <2>1. NoMore(P, ms, m, at)
    BY SelectedNoMore
  <2> QED
    BY <1>2, <1>7, <2>1 DEF NoMore
<1>11. Selected(ns, at \cup {n + 1}) = Append(Selected(ms, at), m)
  <2>1. OneMore(P, ms, m, at)
    BY SelectedOneMore
  <2> QED
    BY <1>1, <1>2, <1>7, <2>1 DEF OneMore
<1>12. ASSUME m.cmd = <<>> PROVE bt = at
  BY <1>8, <1>12
<1>13. ASSUME m.cmd # <<>> PROVE bt = at \cup {n + 1}
  BY <1>8, <1>13
<1> QED
  BY <1>2, <1>9, <1>10, <1>11, <1>12, <1>13

\* A line and the line without its carriage return mean the same command, or none.
LEMMA SameCommand ==
  ASSUME NEW line \in Texts
  PROVE  \/ Chomped(line) = line
         \/ line # <<>> /\ Chomped(line) # <<>> /\ Meaning(line) = Meaning(Chomped(line))
         \/ line # <<>> /\ Chomped(line) = <<>> /\ Meaning(line).cmd = <<>>
<1>1. SUFFICES ASSUME Chomped(line) # line
               PROVE  \/ /\ line # <<>> /\ Chomped(line) # <<>>
                         /\ Meaning(line) = Meaning(Chomped(line))
                      \/ line # <<>> /\ Chomped(line) = <<>> /\ Meaning(line).cmd = <<>>
  OBVIOUS
<1>2. PICK l \in Texts : l = Chomped(line) /\ EndsWithReturn(line, l)
  BY <1>1, ChompedIs
<1>3. line # <<>>
  BY <1>1 DEF Chomped
<1>4. CASE l # <<>>
  BY <1>2, <1>3, <1>4, SameMeaning
<1>5. CASE l = <<>>
  <2>1. PICK c \in Texts : c = <<Return>>
    BY ReturnIs
  <2>2. line = c
    BY <1>2, <1>5, <2>1, EmptyConcat DEF EndsWithReturn
  <2>3. Meaning(c).cmd = <<>>
    BY <2>1, OnlyReturn
  <2> QED
    BY <1>2, <1>3, <1>5, <2>2, <2>3
<1> QED
  BY <1>4, <1>5

SameCommands(b, c) == c \in Buffers /\ Commands(Meanings(b)) = Commands(Meanings(c))

LEMMA ReturnsDoNotMatter == \A b \in Buffers : SameCommands(b, WithoutCR(b))
<1> DEFINE T == {b \in Buffers : SameCommands(b, WithoutCR(b))}
<1>1. <<>> \in T
  <2>1. PICK z : z = <<>>
    OBVIOUS
  <2>2. z \in Buffers
    BY <2>1, EmptyIn DEF Buffers, Closed
  <2>3. Kept(z) = {} /\ DOMAIN z = {}
    BY <2>1 DEF Kept
  <2>4. WithoutCR(z) = [k \in DOMAIN z |-> z[z[k]]]
    BY <2>1, <2>3, OrderedEmpty, WithoutCRIs DEF Selected
  <2>5. WithoutCR(z) = z
    BY <2>1, <2>3, <2>4
  <2> QED
    BY <2>1, <2>2, <2>5 DEF SameCommands
<1>2. ASSUME NEW d \in T, NEW line \in Texts PROVE WithLine(d, line) \in T
  <2>1. PICK x, l : x = WithoutCR(d) /\ l = Chomped(line)
    OBVIOUS
  <2>2. d \in Buffers /\ x \in Buffers /\ Commands(Meanings(d)) = Commands(Meanings(x))
    BY <2>1 DEF SameCommands
  <2>3. d \in Seq(Chars) /\ Closed(d) /\ x \in Seq(Chars) /\ Closed(x)
    BY <2>2 DEF Buffers
  <2>4. l \in Texts /\ WithoutCR(WithLine(d, line)) = WithLine(x, l)
    BY <2>1, <2>2, WithoutCRMore
  <2>5. WithLine(d, line) \in Buffers /\ WithLine(x, l) \in Buffers
    BY <2>3, <2>4, WithLineIs DEF Buffers
  <2>6. PICK M, ms, ns : M = Meant /\ ms = Meanings(d) /\ ns = Meanings(x)
    OBVIOUS
  <2>7. ms \in Seq(M) /\ ns \in Seq(M) /\ Commands(ms) = Commands(ns)
    BY <2>2, <2>6, MeaningsType
  <2>8. /\ line = <<>> => Meanings(WithLine(d, line)) = ms
        /\ line # <<>> => Meanings(WithLine(d, line)) = Append(ms, Meaning(line))
    BY <2>3, <2>6, MeaningsMore
  <2>9. /\ l = <<>> => Meanings(WithLine(x, l)) = ns
        /\ l # <<>> => Meanings(WithLine(x, l)) = Append(ns, Meaning(l))
    BY <2>3, <2>4, <2>6, MeaningsMore
  <2>10. ASSUME NEW m \in M
         PROVE  /\ m.cmd = <<>> => Commands(Append(ms, m)) = Commands(ns)
                /\ Commands(Append(ms, m)) = Commands(Append(ns, m))
    <3>1. /\ m.cmd = <<>> => Commands(Append(ms, m)) = Commands(ms)
          /\ m.cmd # <<>> => Commands(Append(ms, m)) = Append(Commands(ms), m)
      BY <2>7, CommandsMore
    <3>2. /\ m.cmd = <<>> => Commands(Append(ns, m)) = Commands(ns)
          /\ m.cmd # <<>> => Commands(Append(ns, m)) = Append(Commands(ns), m)
      BY <2>7, CommandsMore
    <3> QED
      BY <2>7, <3>1, <3>2
  <2>11. \A t \in Texts : t # <<>> => Meaning(t) \in M
    BY <2>6 DEF Meant
  <2>12. Commands(Meanings(WithLine(d, line))) = Commands(Meanings(WithLine(x, l)))
    <3>1. CASE l = line /\ line = <<>>
      BY <2>7, <2>8, <2>9, <3>1
    <3>2. CASE line # <<>> /\ l # <<>> /\ Meaning(line) = Meaning(l)
      BY <2>8, <2>9, <2>10, <2>11, <3>2
    <3>3. CASE line # <<>> /\ l = <<>> /\ Meaning(line).cmd = <<>>
      BY <2>8, <2>9, <2>10, <2>11, <3>3
    <3> QED
      BY <2>1, <3>1, <3>2, <3>3, SameCommand
  <2> QED
    BY <2>4, <2>5, <2>12 DEF SameCommands
<1> HIDE DEF T
<1>3. T \in SUBSET Buffers
  BY DEF T
<1>4. T = Buffers
  BY <1>1, <1>2, <1>3, BufferInduction
<1> QED
  BY <1>4 DEF T

\* A client that ends its lines with CR LF has the same commands executed as one
\* that ends them with LF alone, in the same order.
THEOREM ReturnsAreIgnored == Spec => []CarriageReturnsAreIgnored
<1>1. Typed /\ LinesInv => CarriageReturnsAreIgnored
  <2> SUFFICES ASSUME Typed, LinesInv, pc = "line", unread = <<>>
               PROVE  Commands(fullMsg) = Commands(Meanings(WithoutCR(buffer)))
    BY DEF CarriageReturnsAreIgnored, Parsed
  <2>1. PICK done \in Seq(Chars) :
          Closed(done) /\ buffer = done \o unread /\ fullMsg = Meanings(done)
    BY DEF LinesInv
  <2>2. done \o <<>> = done
    <3>1. PICK P : P = Chars /\ done \in Seq(P)
      OBVIOUS
    <3> QED
      BY <3>1
  <2>3. done \in Buffers /\ buffer = done
    BY <2>1, <2>2 DEF Buffers
  <2> QED
    BY <2>1, <2>3, ReturnsDoNotMatter DEF SameCommands
<1> QED
  BY <1>1, ParserInvariant, PTL

=============================================================================
