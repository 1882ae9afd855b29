SPECIFICATION Spec
CONSTANTS
  o5 = o5
  f1 = f1
  g1 = g1
  g2 = g2
  k1 = k1
  k2 = k2
  a1 = a1
  a2 = a2
  b1 = b1
  c1 = c1
  o1 = o1
  o2 = o2
  o3 = o3
  o4 = o4
  pA = pA
  pB = pB
  pC = pC
  FeatureSet = {f1}
  Generation = {g1, g2}
  Key = {k1, k2}
  Content = {a1, a2, b1, c1}
  OpId = {o1, o2, o3, o4, o5}
  Plan = {pA, pB, pC}
  Client = {w1, w2}
  Reader = {r1}
  PlanFs <- MCPlanFs
  PlanGen <- MCPlanGen
  PlanOp <- MCPlanOp
  PlanRows <- MCPlanRows
  Orderly = {pA, pB, pC}
  PolicyOps = {}
  MaxDamage = 1
  MaxCrashes = 1
  NoGeneration = NoGeneration
  NoPlan = NoPlan
  NoOp = NoOp
  NoDecision = NoDecision
  NoToken = NoToken
  NoKey = NoKey
  NoResult = NoResult
  Absent = Absent
SYMMETRY ClientSymmetry
INVARIANTS
  ReceiptIsTruth
  PointerNamesActive
  HistoryChain
  AnswersAreDurable
  PinnedReadsConsistent
  RefusedOnlyForDamage
  TypeOK
PROPERTIES
  ImplementsPublication
