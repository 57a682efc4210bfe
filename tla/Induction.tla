------------------------------ MODULE Induction ------------------------------
(***************************************************************************)
(* Induction in the form that the provers take: over a set of numbers or   *)
(* of sequences instead of over a predicate.  The sets stand for what is   *)
(* to be proved; a lemma about a recursive function puts the arguments for *)
(* which it holds into such a set.  With the facts about sequences that    *)
(* the proofs about PollLoop, ModeLoop and Parser share.                   *)
(***************************************************************************)
EXTENDS Integers, Sequences, WellFoundedInduction, TLAPS

LEMMA LeastNatural ==
  ASSUME NEW T \in SUBSET Nat, T # {}
  PROVE  \E x \in T : \A y \in T : ~ (y < x)
<1> DEFINE R == OpToRel(<, Nat)
<1>1. \A x, y \in Nat : y < x => <<y, x>> \in R
  BY DEF OpToRel
<1>2. IsWellFoundedOn(R, Nat)
  BY NatLessThanWellFounded
<1> HIDE DEF R
<1>3. \E x \in T : \A y \in T : ~ (<<y, x>> \in R)
  BY <1>2, WFMin
<1> QED
  BY <1>1, <1>3

LEMMA SetInduction ==
  ASSUME NEW S \in SUBSET Nat, 0 \in S, \A n \in S : n + 1 \in S
  PROVE  S = Nat
<1> SUFFICES ASSUME S # Nat PROVE FALSE
  OBVIOUS
<1>1. PICK x \in Nat \ S : \A y \in Nat \ S : ~ (y < x)
  BY LeastNatural
<1>2. x # 0 /\ x - 1 \in Nat /\ x - 1 < x
  BY <1>1
<1>3. x - 1 \in S
  BY <1>1, <1>2
<1>4. x - 1 + 1 = x
  BY <1>1
<1> QED
  BY <1>1, <1>3, <1>4

-----------------------------------------------------------------------------
(* Sequences *)

LEMMA SameSequence ==
  ASSUME NEW P, NEW s \in Seq(P), NEW t \in Seq(P), Len(s) = Len(t),
         \A k \in 1 .. Len(s) : t[k] = s[k]
  PROVE  s = t
  OBVIOUS

LEMMA Append1 ==
  ASSUME NEW S, NEW s \in Seq(S), NEW x \in S
  PROVE  /\ Append(s, x) \in Seq(S) /\ Append(s, x) # <<>>
         /\ Len(Append(s, x)) = Len(s) + 1
         /\ \A n \in 1 .. Len(s) : Append(s, x)[n] = s[n]
         /\ Append(s, x)[Len(s) + 1] = x
  OBVIOUS

LEMMA Concat ==
  ASSUME NEW P, NEW s \in Seq(P), NEW t \in Seq(P)
  PROVE  /\ s \o t \in Seq(P) /\ Len(s \o t) = Len(s) + Len(t)
         /\ Len(s) \in Nat /\ Len(t) \in Nat
         /\ \A n \in 1 .. Len(s) : (s \o t)[n] = s[n]
         /\ \A n \in 1 .. Len(t) : (s \o t)[Len(s) + n] = t[n]
  OBVIOUS

LEMMA Associative ==
  ASSUME NEW P, NEW s \in Seq(P), NEW t \in Seq(P), NEW u \in Seq(P)
  PROVE  (s \o t) \o u = s \o (t \o u)
  OBVIOUS

\* A sequence that is not empty is one that is shorter, and its last element.
LEMMA LastElement ==
  ASSUME NEW P, NEW s \in Seq(P), NEW n \in Nat, Len(s) = n + 1
  PROVE  \E t \in Seq(P), b \in P : s = Append(t, b) /\ Len(t) = n
<1> DEFINE t == SubSeq(s, 1, n)
           b == s[n + 1]
<1>1. b \in P /\ t \in Seq(P) /\ Len(t) = n
  OBVIOUS
<1>2. s = Append(t, b)
  OBVIOUS
<1> QED
  BY <1>1, <1>2

LEMMA SequenceInduction ==
  ASSUME NEW P, NEW T \in SUBSET Seq(P), <<>> \in T,
         \A s \in T, b \in P : Append(s, b) \in T
  PROVE  T = Seq(P)
<1> DEFINE N == {n \in Nat : \A s \in Seq(P) : Len(s) = n => s \in T}
<1>1. 0 \in N
  <2>1. \A s \in Seq(P) : Len(s) = 0 => s = <<>>
    OBVIOUS
  <2> QED
    BY <2>1
<1>2. ASSUME NEW n \in N PROVE n + 1 \in N
  <2>1. ASSUME NEW s \in Seq(P), Len(s) = n + 1 PROVE s \in T
    <3>1. PICK t \in Seq(P), b \in P : s = Append(t, b) /\ Len(t) = n
      BY <2>1, LastElement
    <3>2. t \in T
      BY <3>1
    <3> QED
      BY <3>1, <3>2
  <2> QED
    BY <2>1
<1>3. N \in SUBSET Nat
  OBVIOUS
<1> HIDE DEF N
<1>4. N = Nat
  BY <1>1, <1>2, <1>3, SetInduction
<1>5. \A s \in Seq(P) : Len(s) \in N
  BY <1>4
<1> QED
  BY <1>5 DEF N

=============================================================================
