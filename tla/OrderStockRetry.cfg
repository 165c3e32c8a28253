SPECIFICATION Spec
CONSTANTS
  p1 = p1  p2 = p2
  v1 = v1  v2 = v2
  o1 = o1  o2 = o2  o3 = o3
  a1 = a1  a2 = a2
  NoOrder = NoOrder
  Products <- OneProduct
  Variants <- MCVariants
  ProductOf <- SameProduct
  InitStock <- MCInitStock
  Lines <- MCLines
  Orders = {o1, o2, o3}
  Legacy = {o3}
  Admins = {a1, a2}
  SerialPatches = TRUE
  CheckoutFaults = {}
  AdminFaults = {}
  MaxFaults = 0
  MaxEdits = 1
  MaxPatches = 3
INVARIANT
  NothingReleasedTwice
CHECK_DEADLOCK FALSE
