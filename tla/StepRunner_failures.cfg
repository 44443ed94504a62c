SPECIFICATION FairSpec
CONSTANTS
  Runs <- OneRun
  LabelsOf <- OneGeneration
  Kinds <- BothKinds
  Targets = {t1, t2}
  Drawn = {s1, s2}
  ApiMayFail = TRUE
  None = None
INVARIANT VerdictCleansUp
PROPERTY FollowsLifecycle
PROPERTY RunnerReturns
PROPERTY EndIsSeen
