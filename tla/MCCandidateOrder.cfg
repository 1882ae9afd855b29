SPECIFICATION Spec
CONSTANTS
  Customer <- SpacedIds
  Feature <- SpacedIds
  Planned <- SpacedPlan
  GenSuffix <- MCGenSuffix
  DefSuffix <- MCDefSuffix
  PageSize = 7
INVARIANTS
  CompleteCandidateMatchesPlan
