\* Reuse, eviction and drain over three buckets.
SPECIFICATION Spec
CONSTANTS
  p1 = p1
  p2 = p2
  p3 = p3
  p4 = p4
  Ptr <- Ptrs
  Bucket <- Buckets
  Request <- Requests
  CapPerBucket = 1
  MaxAcquires = 6
SYMMETRY Symmetry
INVARIANTS
  TypeOK
  NoAliasing
  BuffersAllocated
  ResidentExact
