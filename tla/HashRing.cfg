SPECIFICATION RingSpec
CONSTANTS
  n1 = n1
  n2 = n2
  n3 = n3
  n4 = n4
  n5 = n5
  n6 = n6
  n7 = n7
  Names = {n1, n2, n3, n4, n5, n6, n7}
  Replicas <- MCReplicas
  KeyHashes <- MCKeyHashes
INVARIANTS SliceMatchesMap WalkIsClockwise
PROPERTY MinimalDisruption
