\* Two operators with equal and competing bundles; one of two packages replaces
\* an owner and asks for more of them.
SPECIFICATION Spec
CONSTANTS
  Accounts = {ann, bob, cat}
  InitialOwners = {ann, bob}
  InitialThreshold = 1
  Operators = {op1, op2}
  Nobody = nobody
  Mortal = {ann}
  Again = FALSE
  Packages = {pay, rotate}
  Sound = {pay, rotate}
  Rotation = rotate
  RotatedOwners = {bob, cat}
  RotatedThreshold = 2
  MaxNonce = 2
INVARIANTS TypeOK BundlesAreSigned ReportsAreTrue ReceiptsVerify
SYMMETRY OperatorsAreAlike
CHECK_DEADLOCK FALSE
