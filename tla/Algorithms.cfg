SPECIFICATION Spec
CONSTANTS
  Base = 3
  SecondWidth = 2
  MicroWidth = 2
  Offsets = {0, 2, 3}
  c1 = c1
  c2 = c2
  c3 = c3
  Containers = {c1, c2, c3}
  Root = c1
  MaxItems = 2
  Nestings = {2, 3}
  Chars <- SqlChars
  Separators <- SomeSeparators
  MaxLength = 5
INVARIANTS
  TextsAreInstants
  VerdictIsRight
  TokensAreLexemes
CHECK_DEADLOCK FALSE
