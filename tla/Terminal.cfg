SPECIFICATION Spec
CONSTANTS
  SizeMax = 40
  Providers <- MCProviders
  Keys = {"q", "d", "minus"}
  PickerKeys = {"Down", "Enter"}
  MinRate = 1
  MaxRate = 3
  InitRate = 2
  Invocations <- MCInvocations
  Machines <- MCMachines
  Arrivals <- MCArrivals
  Budgets <- MCBudgets
INVARIANTS
  TypeOK
  TerminalRestored
PROPERTIES
  DiscoveryIsRight
  AttachedAsAsked
  SignalEndsIt
CHECK_DEADLOCK FALSE
