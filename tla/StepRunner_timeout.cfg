SPECIFICATION ClosingSpec
CONSTANTS
  Runs <- OneRun
  LabelsOf <- OneGeneration
  Kinds <- BothKinds
  Targets = {t1}
  Drawn = {s1}
  ApiMayFail = FALSE
  None = None
PROPERTY TimeoutIsMarked
