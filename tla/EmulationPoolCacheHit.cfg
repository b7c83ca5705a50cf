SPECIFICATION Spec
CONSTANTS
  m1 = m1
  m2 = m2
  m3 = m3
  e1 = e1
  e2 = e2
  e3 = e3
  p1 = p1
  p2 = p2
  p3 = p3
  Middleboxes <- MCMiddleboxes
  Emulations <- MCEmulations
  Packets <- MCPackets
  PacketsAt <- MCPacketsAt
  MaxEmu = 2
  PktsPerInjection = 1
  NoMb = NoMb
  MaxHist = 2
  MaxDepth = 4
SYMMETRY Symmetry
INVARIANT CachedResultsFaithful
CHECK_DEADLOCK FALSE
