\* Export and seal while artifacts are written, Git is used, commands are
\* killed and files are lost.
SPECIFICATION FairSpec
CONSTANTS
  timelockJson = timelockJson
  deployLog = deployLog
  sepolia = sepolia
  rehearsal = rehearsal
  Artifacts = {timelockJson, deployLog}
  Networks = {sepolia, rehearsal}
  Ignored <- MCIgnored
  Json = {timelockJson}
  Bound = {timelockJson}
  Root <- MCRoot
  Roots = 2
  Category <- MCCategory
  Required = {"infrastructure", "token"}
  Input = input
  MaxCommits = 2
  Substitutes <- MCSubstitutes
  Absent = absent
  Torn = torn
INVARIANTS EvTypeOK SealedIsTrue SealsAgree SealedIsHiddenFromGit
PROPERTIES CompleteEvidenceIsSealed
