SPECIFICATION Spec
CONSTANTS
  MaxPods = 3
  Pods <- PodKinds
  Percentages <- Shares
  Unset = Unset
  Garbage = Garbage
INVARIANT ShareIsExact
INVARIANT PodsComeFirst
CHECK_DEADLOCK FALSE
