SPECIFICATION Spec
CONSTANTS
  f1 = f1  f2 = f2  g1 = g1  g2 = g2  k1 = k1  k2 = k2
  a1 = a1  a2 = a2  b1 = b1  c1 = c1  pA = pA  pB = pB  pC = pC
  w1 = w1  w2 = w2
  FeatureSet = {f1, f2}
  Generation = {g1, g2}
  Key = {k1, k2}
  Content = {a1, a2, b1, c1}
  Plan = {pA, pB, pC}
  Worker = {w1, w2}
  PlanFs <- MCPlanFs
  PlanGen <- MCPlanGen
  PlanRows <- MCPlanRows
  Slot <- MCSlot
  PageLimit = 1
  MaxFaults = 1
  Expects <- MCExpects
  NoGeneration = NoGeneration
  NoPlan = NoPlan
  NoOp = NoOp
  Absent = Absent
SYMMETRY WorkerSymmetry
INVARIANTS SealedIsWhole OperationsAreTheChain AnswersAreDurable
PROPERTIES OnlyForward ScanNeverSpurious ImplementsPublication
