SPECIFICATION Spec
CONSTANTS
  Addr <- MCAddr
  Source <- MCSource
  NewBucket = {0, 1}
  TriedBucket = {0}
  GetNewBucket <- MCGetNewBucket
  GetTriedBucket <- MCGetTriedBucket
  ADDRMAN_NEW_BUCKET_SIZE = 1
  ADDRMAN_TRIED_BUCKET_SIZE = 1
  ADDRMAN_NEW_BUCKETS_PER_ADDRESS = 2
  ADDRMAN_TRIED_ENTRIES_INSPECT_ON_EVICT = 4
  ADDRMAN_GETADDR_MAX_PCT = 50
  MaxId = 3
  MaxTime = 1
INVARIANTS
  Check
  BucketsBounded
  DumpRestores
PROPERTIES
  TriedNeverDeleted
