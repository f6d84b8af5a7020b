CONSTANTS
  Input <- MCInput
  Jobs <- MCJobs
  ChunkSizes = {2, 4, 6, 8, 9}
  InCapacity = 9
  OutCapacities = {5, 32}
  NativeRoom = 16
  Heap = {0, 165}
SPECIFICATION Spec
INVARIANTS ChunksLikeStream CutIsPrefix
CHECK_DEADLOCK FALSE
