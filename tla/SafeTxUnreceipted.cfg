\* A command is killed between the execution and its receipt.
SPECIFICATION FairSpec
CONSTANTS
  Accounts = {ann, bob}
  InitialOwners = {ann, bob}
  InitialThreshold = 2
  Operators = {operator}
  Nobody = nobody
  Mortal = {ann, bob, operator}
  Again = TRUE
  Packages = {pay}
  Sound = {pay}
  Rotation = none
  RotatedOwners = {ann, bob}
  RotatedThreshold = 2
  MaxNonce = 1
PROPERTIES ExecutionsAreReceipted
CHECK_DEADLOCK FALSE
