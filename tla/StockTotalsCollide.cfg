\* Two decrements of two variants of one size, no form, and no statement that fails.
CONSTANTS
  S = S
  M = M
  L = L
  black = black
  white = white
  b1 = b1
  b2 = b2
  b3 = b3
  Sizes <- MCSizes
  Colors <- MCColors
  Variants <- MCVariants
  InitTables <- MCInitTables
  Wants <- MCWants
  Change <- MCChange
  Forms <- MCForms
  Buyers = {b1, b2}
  Admins = {}
  Faulty = {}
SPECIFICATION Spec
INVARIANT
  FailedMovesNothing
CHECK_DEADLOCK FALSE
