SPECIFICATION Spec
CONSTANTS
  NumSteps = 1
  NumStages = 1
  StageOf <- Single
  Names = {a, b}
  Types <- BareName
  ApiMayFail = FALSE
  None = None
INVARIANT FailedStepFailsJob
