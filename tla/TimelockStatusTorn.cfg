\* The status command read against a moving chain.
SPECIFICATION StatusSpec
CONSTANTS
  Operations = {op1, op2}
  Asked = op1
  GovernanceSafe = governance
  SecuritySafe = security
  MinDelay = 2
  Delays = {1, 2, 3}
  NoReport = noreport
INVARIANTS AllReportsHeld
