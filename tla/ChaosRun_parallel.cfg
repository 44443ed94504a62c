SPECIFICATION Spec
CONSTANTS
  NumSteps = 2
  NumStages = 1
  StageOf <- OneStage
  Names = {a, b}
  Types <- AllKinds
  ApiMayFail = TRUE
  None = None
INVARIANT TypeOK
INVARIANT IInv
INVARIANT OwnStatus
INVARIANT AckedFailureIsFinal
INVARIANT AtMostOneRun
INVARIANT RejectedNeverRuns
PROPERTY LedgerSpec
PROPERTY VerdictIsFinal
