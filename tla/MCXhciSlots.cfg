SPECIFICATION Spec
CONSTANTS
  Slots = {1, 2, 3}
  Places <- MCPlaces
  Kinds <- MCKinds
  Addresses = {1, 2, 3, 4}
  Retries = 1
  MaxUpsets = 4
CHECK_DEADLOCK FALSE
INVARIANTS
  OneSlotPerPlace SlotsFollowTree DevicesFound TTFollowsTree RingsOwned
