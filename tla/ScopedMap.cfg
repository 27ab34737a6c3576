CONSTANTS
  k1 = k1
  k2 = k2
  d1 = d1
  d2 = d2
  Key <- MCKey
  Data <- MCData
  Unbound = Unbound
  MaxScopes = 4
SPECIFICATION Spec
INVARIANTS TypeOK
PROPERTIES IsEnvironment PutShadows
