SPECIFICATION Spec
CONSTANTS
  o1 = o1  o2 = o2  o3 = o3  o4 = o4
  ann = ann  bob = bob  Guest = Guest
  NoLimit = NoLimit
  Orders = {o1, o2, o3, o4}
  UserOf <- MCUserOf
  Limits = {1, 2, NoLimit}
  InitLimit = 1
  InitPerUser = 1
  MaxParallel = 2
  MaxEdits = 0
  MaxFaults = 0
INVARIANT
  DiscountsWithinLimit
CHECK_DEADLOCK FALSE
