------------------------------ MODULE MCParser ------------------------------
(***************************************************************************)
(* An instance of Parser for TLC.                                          *)
(***************************************************************************)
EXTENDS Parser, TLC

LetterSymmetry == Permutations(Letters)

=============================================================================
