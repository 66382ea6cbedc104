SPECIFICATION Spec
CONSTANTS
  Tuning <- Registers
  Devs = {"hub", "disk", "fast", "stick"}
  Parent <- Tree
  Mute = {"fast"}
  SuperDevs = {"fast", "stick"}
  MaxFaults = 2
  MaxAttempts = 4
INVARIANTS
  AcceptedTreeWhole
  FaultsAreAbsorbed
  TrainedLinkSurvives
  ReadyMeansConfigured
PROPERTIES
  WholeTreeKept
  EveryBootReachesMenu
