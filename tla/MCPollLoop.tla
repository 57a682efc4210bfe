----------------------------- MODULE MCPollLoop -----------------------------
(***************************************************************************)
(* Instances of PollLoop for TLC.                                          *)
(***************************************************************************)
EXTENDS PollLoop, TLC

CONSTANTS a, b

TwoLinesAndOne == [p \in Peers |-> IF p = a THEN 4 ELSE 2]

=============================================================================
