\* All specs, and the starts of the pods that install their plugins.
CONSTANTS
  Requested <- All
  BasePlugins <- Base
  Given <- Typed
  Lists <- Installed
  Alias <- OtherName
  Served <- Center
  Files <- Archives
  Garbled = Garbled
  None = None
  NoCasc = NoCasc
  MaxMishaps = 3
SPECIFICATION StartSpec
INVARIANTS MountsResolve PodIsComplete ReadyHasPlugins
PROPERTY FreshHomeInstalls
CHECK_DEADLOCK FALSE
