\* Four checkouts of two users and a guest, two at a time; two editors of the rule; an
\* order with its mails and two PATCHes; three orders in the list.
SPECIFICATION SalesSpec
CONSTANTS
  o1 = o1  o2 = o2  o3 = o3  o4 = o4
  ann = ann  bob = bob  Guest = Guest
  NoLimit = NoLimit
  Orders = {o1, o2, o3, o4}
  UserOf <- MCUserOf
  Limits = {1, 2, NoLimit}
  InitLimit = 1
  InitPerUser = NoLimit
  MaxParallel = 2
  MaxEdits = 1
  MaxFaults = 1
  Editors = {e1, e2}
  Rules <- MCRules
  Deltas <- MCDeltas
  Seeded <- MCSeeded
  Shippings <- MCShippings
  Defaults <- MCDefaults
  Subtotals = {5, 7}
  NULL = NULL
  Empty = Empty
  MaxRules = 2
  MaxUpdates = 2
  MaxSettings = 1
  Bought = {"o"}
  Patches = {p1, p2}
  Contacts = {"c"}
  Signups = {"n"}
  MaxForms = 1
  Customers = {"ann", "bo"}
  Statuses = {"pending", "shipped"}
  DefaultLimit = 2
  MaxLimit = 1
  MaxPlaced = 3
  MaxMoves = 2
INVARIANTS
  SalesTypeOK
  CountWithinPeak
  CountIsAudited
  OverrunBounded
  RuleInOrder
  BooksBalance
  ToldOnce
  SteadySeen
SYMMETRY MCSymmetry
CHECK_DEADLOCK FALSE
