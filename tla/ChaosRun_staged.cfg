SPECIFICATION FairSpec
CONSTANTS
  NumSteps = 4
  NumStages = 3
  StageOf <- ForkInMiddle
  Names = {a, b, c, d}
  Types <- TwoKinds
  ApiMayFail = FALSE
  None = None
INVARIANT StageBarrier
INVARIANT SuccessMeansFinished
INVARIANT QuietInv
INVARIANT StatusRecorded
INVARIANT FailedStepFailsJob
PROPERTY RunEnds
