SPECIFICATION Spec
CONSTANTS
  Hops = 2
  FrameSlot <- SmallFrame
  Scenarios <- SmallScenarios
  Calls <- SmallCalls
  Letters <- SmallLetters
  Failures = {FALSE, TRUE}
  Crashes = TRUE
INVARIANTS TypeOK CacheCurrent OutsideKept TreeGone CopyFaithful ListAgreesWithGet
CHECK_DEADLOCK FALSE
