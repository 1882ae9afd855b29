SPECIFICATION Spec
CONSTANTS
  gA = gA
  gB = gB
  k1 = k1
  k2 = k2
  a1 = a1
  a2 = a2
  b1 = b1
  x = x
  eA = eA
  eB = eB
  s1 = s1
  s2 = s2
  iA = iA
  iB = iB
  iS = iS
  Generation = {gA, gB}
  Key = {k1, k2}
  Content = {a1, a2, b1, x}
  OpId = {o1, o2, o3}
  Artifact = {eA, eB, s1, s2}
  ArtifactId = {iA, iB, iS}
  Writer = {w1, w2}
  Reader = {r1}
  IdOf <- MCIdOf
  ArtifactRows <- MCArtifactRows
  ManifestRows <- MCManifestRows
  Links <- MCLinks
  Authorities = {eA, eB}
  Offered <- MCOffered
  Predecessors <- MCPredecessors
  MaxVersion = 3
  MaxTampers = 1
  NoGeneration = NoGeneration
  NoReceipt = NoReceipt
  NoOp = NoOp
  NoArtifact = NoArtifact
  NoToken = NoToken
  NoKey = NoKey
  NoResult = NoResult
  Absent = Absent
SYMMETRY OpSymmetry
INVARIANTS
  ProvenBeforeVisible
  HistoryChain
  AnswersAreDurable
  PinnedReadsConsistent
PROPERTIES
  ImplementsPublication
  ArtifactsImmutable
