SPECIFICATION Spec
CONSTANTS
  Addresses <- MCAddresses
  Stacks <- MCStacks
  Methods <- MCMethods
  Jitted <- MCJitted
  WaitFrames <- MCWaitFrames
  MaxStacks = 2
  MaxGenerations = 3
  MaxSamples = 4
INVARIANTS TypeOK NothingMissing NoOlderStack SamplesCounted HotMethodsAddUp
CHECK_DEADLOCK FALSE
