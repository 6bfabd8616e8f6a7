\* Two packages that compete for nonces; execute may be killed while its
\* transaction is in the pool.
SPECIFICATION FairSpec
CONSTANTS
  Accounts = {ann, bob}
  InitialOwners = {ann, bob}
  InitialThreshold = 2
  Operators = {operator}
  Nobody = nobody
  Mortal = {operator}
  Again = FALSE
  Packages = {pay, transfer}
  Sound = {pay, transfer}
  Rotation = none
  RotatedOwners = {ann, bob}
  RotatedThreshold = 2
  MaxNonce = 2
INVARIANTS ReceiptsAreTrue
PROPERTIES PackagesExecute
CHECK_DEADLOCK FALSE
