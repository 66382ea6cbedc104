SPECIFICATION Spec
CONSTANTS
  TrbNumber = 3
  TransferKinds = {"control"}
  TransferErrors = {"stall", "buffer"}
  MaxLeft = 1
INVARIANTS
  RingInOrder
  CompletionsTrue
  FreedUrbsOffTheRing
CHECK_DEADLOCK FALSE
