SPECIFICATION MCSpec
CONSTANTS
  k1 = k1
  k2 = k2
  t1 = t1
  t2 = t2
  r1 = r1
  p1 = p1
  p2 = p2
  a1 = a1
  a2 = a2
  x = x
  bad = bad
  i1 = i1
  i2 = i2
  NoKey = NoKey
  Nobody = Nobody
  Kernels = {k1, k2}
  Tasks = {t1, t2}
  Readers = {r1}
  Projects = {p1, p2}
  Aggregates = {a1, a2}
  Keys = {i1, i2}
  Bodies = {x, bad}
  BadBodies = {bad}
  Batches <- MCBatches
  MaxInflight = 2
  PageLimit = 1
  MaxSeq = 4
  MaxVersion = 3
  MaxEpoch = 2
  MaxFence = 1
INVARIANTS
  KeysLandOnce
  CursorComplete
  AckedDurable
PROPERTIES
  ImplementsPort
  OnlyCurrentWriterLands
  TakeoverEnds
