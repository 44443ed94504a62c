SPECIFICATION Spec
CONSTANTS
  Runs <- TwoRuns
  LabelsOf <- TwoGenerations
  Kinds <- BothKinds
  Targets = {t1, t2}
  Drawn = {s1, s2}
  ApiMayFail = FALSE
  None = None
INVARIANT TypeOK
INVARIANT IInv
INVARIANT OnlyOwnJobsDie
INVARIANT SuccessIsEarned
