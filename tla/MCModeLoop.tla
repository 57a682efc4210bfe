----------------------------- MODULE MCModeLoop -----------------------------
(***************************************************************************)
(* Instances of ModeLoop for TLC.                                          *)
(***************************************************************************)
EXTENDS ModeLoop

CONSTANTS n1, n2, one, big

NicknameOf == [u \in Users |-> IF u = 1 THEN n1 ELSE n2]

\* A limit, a number that is no int, and words that are no numbers.
NumberOf == [w \in Words |-> CASE w = one -> 1 [] w = big -> MaxInt + 3 [] OTHER -> 0]

\* The first client has created the channel and is alone, or the second has
\* joined it; with all modes off, or all on, with a key or the empty one.
TwoByTwo ==
  {[Chan!Freed EXCEPT !.name = Name, !.operators = {1}, !.normal = others,
                      !.inviteOnly = key # NoKey, !.topicLock = key # NoKey,
                      !.key = key,
                      !.limit = IF key # NoKey THEN 1 ELSE 0] :
     others \in {<<>>, <<2>>}, key \in {NoKey, big, EmptyKey}}

=============================================================================
