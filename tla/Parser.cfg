\* Every buffer of up to seven characters and its newline.  The parser ends with its buffer.
SPECIFICATION Spec
CHECK_DEADLOCK FALSE
CONSTANTS
  Letters = {x, y}
  MaxLength = 7
SYMMETRY LetterSymmetry
INVARIANTS
  ParserTypeOK
  ParsesAsDefined
  WrittenBackTheSame
  CarriageReturnsAreIgnored
