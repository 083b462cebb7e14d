SPECIFICATION Spec
CONSTANTS
  Handle = {h1, h2}
  Key = {k1, k2}
  Value = {v1}
  NoValue = NoValue
  NULL = NULL
  MaxBatch = 2
PROPERTIES
  ImplementsStore
