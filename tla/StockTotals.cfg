\* A decrement, an increment and a form; a statement of each may fail.
CONSTANTS
  S = S
  M = M
  L = L
  black = black
  white = white
  b1 = b1
  b2 = b2
  b3 = b3
  Sizes <- MCSizes
  Colors <- MCColors
  Variants <- MCVariants
  InitTables <- MCInitTables
  Wants <- MCWants
  Change <- MCChange
  Forms <- MCForms
  Buyers = {b1, b3}
  Admins = {a}
  Faulty = {b1, b3, a}
SPECIFICATION FairSpec
INVARIANTS
  TypeOK
  NeverAMixture
PROPERTIES
  AloneRepairs
  CallsReturn
CHECK_DEADLOCK FALSE
