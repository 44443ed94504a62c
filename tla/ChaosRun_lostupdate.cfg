SPECIFICATION Spec
CONSTANTS
  NumSteps = 2
  NumStages = 1
  StageOf <- OneStage
  Names = {a, b}
  Types <- FullName
  ApiMayFail = FALSE
  None = None
INVARIANT EveryStatusIsRecorded
