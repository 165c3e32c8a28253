\* Nothing fails: a login through the provider is enough.
CONSTANTS
  Emails = {root, ann}
  RootEmail = root
  Requests = {r1, r2}
  MaxUsers = 2
  MaxTokens = 2
  MaxSessions = 1
  MaxFaults = 0
SPECIFICATION Spec
INVARIANT SubjectIsAccount
CHECK_DEADLOCK FALSE
