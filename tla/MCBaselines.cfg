\* Heap, ring, cascading and tickless wheel under the same calls.
SPECIFICATION Spec
CONSTANTS
  N = 6
  MaxNow = 5
  Scenario <- Scenarios
  MinSlots = 2
  LVL_BITS = 1
  NUM_LEVELS = 3
  NoTimeout = NoTimeout
INVARIANTS
  HeapOrdered
  NoneOverdue
  WheelsIndexed
  StoresAgree
PROPERTY StoresImplementTimerStore
