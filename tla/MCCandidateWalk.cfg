SPECIFICATION Spec
CONSTANTS
  Customer <- PlainIds
  Feature <- PlainIds
  Planned <- PlainPlan
  GenSuffix <- MCGenSuffix
  DefSuffix <- MCDefSuffix
  PageSize = 2
INVARIANTS
  WalkComplete
