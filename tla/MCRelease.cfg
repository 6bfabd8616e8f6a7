\* Two operators; two ledgers that add up and one that does not.
SPECIFICATION Spec
CONSTANTS
  Operators = {op1, op2}
  r1 = r1
  r2 = r2
  Recipients = {r1, r2}
  Genesis = genesis
  Others = others
  Supply = 2
  Ledgers <- MCLedgers
  MaxTimelocks = 2
  MaxTokens = 2
  MaxReturned = 2
INVARIANTS TypeOK DeploymentIsGoverned OnlyRecordedIsDistributed DistributedOnce
CHECK_DEADLOCK FALSE
