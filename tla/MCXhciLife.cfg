SPECIFICATION Spec
CONSTANTS
  Slots = {s1, s2}
  Ports = {p1}
  ChangeBits = {"CSC", "PRC"}
  MaxScheds = 3
  NoPort = NoPort
  NoCall = NoCall
SYMMETRY Sym
CHECK_DEADLOCK FALSE
INVARIANTS
  RunsOverOwnMemory
  MonitorSeesLiveMemory
  GivenBackOnce
PROPERTY ExactPortWrites
