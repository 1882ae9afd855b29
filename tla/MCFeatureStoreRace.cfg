SPECIFICATION Spec
CONSTANTS
  Generation = {g1, g2}
  Key = {k1}
  Content = {x1, x2}
  Client = {c1, c2}
  MaxTime = 2
  MaxVersion = 2
  NoGeneration = NoGeneration
SYMMETRY Symmetry
INVARIANTS
  PointerIsProven
  EachVersionOnce
