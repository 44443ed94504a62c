SPECIFICATION Spec
CONSTANTS
  MaxPods = 3
  Pods <- PodKinds
  Percentages <- Shares
  Unset = Unset
  Garbage = Garbage
INVARIANT NoPodsIsAnError
CHECK_DEADLOCK FALSE
