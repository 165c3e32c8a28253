\* Two requests, runs, starts and windows at a time; one failing statement; three
\* addresses, two accounts beside the first administrator, two tokens and one
\* session; five categories; three products on the shelf; two orders.
CONSTANTS
  Requests = {r1, r2}
  MaxAddresses = 3
  MaxFaults = 1
  Emails = {root, ann}
  RootEmail = root
  MaxUsers = 2
  MaxTokens = 2
  MaxSessions = 1
  Files <- MCFiles
  Names <- MCNames
  Codes <- MCCodes
  Imports = {i1, i2}
  MaxEdits = 2
  Groups = {"vetements"}
  GroupOf <- MCGroupOf
  Scoped = {"robes"}
  OwnSlugs = {"abayas"}
  Starts = {b1, b2}
  MaxRows = 5
  Kinds <- MCKinds
  ParentOf <- MCParentOf
  MaxShelf = 3
  MaxChanges = 1
  Windows = {w1, w2}
  Chosen = {"a"}
  Subjects = {"ann", "bo"}
  Short = {"bo"}
  StateTTL = 0
  DefaultTTL = 1
  SessionTTL = 1
  LongestTTL = 4
  Lifetimes = {0, 3}
  MaxSeconds = 2
  MaxReloads = 1
  MethodOf <- MCMethodOf
  Zone = 0
  MaxHalfDays = 3
  Days = {1}
  SparkDays = 1
SPECIFICATION OfficeSpec
INVARIANTS
  OfficeTypeOK
  DefaultKept
  TokenSpentOnce
  ClaimsCovered
  HalfMadeIsExplained
  CleanImportComplete
  NoTwin
  TaxonomyThere
  WalkSeesAll
  OwnLogin
  WithinTTL
  SectionsAgree
PROPERTIES
  LinkKept
SYMMETRY MCSymmetry
CHECK_DEADLOCK FALSE
