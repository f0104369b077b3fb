SPECIFICATION AppFairSpec
CONSTANTS
  Slots = {1, 2}
  MaxMessages = 2
  MaxLoads = 2
INVARIANTS
  AppTypeOK
  OneListener
  WindowTrue
PROPERTIES
  WindowCatchesUp
  StartComesBack
