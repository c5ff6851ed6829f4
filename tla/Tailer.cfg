SPECIFICATION Spec
CONSTANTS
  Tails = {1, 2}
  Setups <- MCSetups
  Literals = {"a", "b"}
  Wild <- MCWild
  Depth = 3
INVARIANTS
  OneTailPerPath
  NoLineAgain
  NoGap
PROPERTIES
  Delivered
  FdReleased
  Shutdown
