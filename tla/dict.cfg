SPECIFICATION Spec
CONSTANTS
  KeySet = {k1, k2, k3}
  Items = {i1, i2, i3, i4, i5}
  NULL = NULL
SYMMETRY Symmetry
INVARIANTS
  MappingInvertsKeys
  OwnedOnce
PROPERTY ActsAsDictionary
CHECK_DEADLOCK FALSE
