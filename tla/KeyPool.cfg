SPECIFICATION Spec
CONSTANTS
  Holder = {g, h}
  KeypoolSize = 1
  RefillSize = {1}
  MaxKey = 7
INVARIANTS
  PoolBacked
  FreshKeys
  SecretsOnDisk
  FlushedByEncryption
CHECK_DEADLOCK FALSE
