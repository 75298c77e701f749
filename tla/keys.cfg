\* Two requests at work on a key, with crashes and a failing credential store.
SPECIFICATION KeysSpec
CONSTANTS
  e1 = e1
  k1 = k1
  k2 = k2
  r1 = r1
  r2 = r2
  h1 = h1
  h2 = h2
  Events <- OneEvent
  Keys <- OneKey
  Refs <- TwoRefs
  Handlers <- TwoHandlers
  NoEvent = NoEvent
  NoRow = NoRow
  NoKey = NoKey
  NoRef = NoRef
INVARIANTS
  KeysTypeOK
  ActiveWasApproved
  KeyHasSecret
PROPERTIES
  ActiveIsKept
  ErasureClaimsAreTrue
SYMMETRY RefSymmetry
