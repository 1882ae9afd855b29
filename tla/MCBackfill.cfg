SPECIFICATION Spec
CONSTANTS
    g1 = g1
    g2 = g2
    w1 = w1
    w2 = w2
    Nil = Nil
    Offered <- MCOffered
    Definitions <- MCDefinitions
    Customers <- MCCustomers
    Cutoff = 4
    Knowledge <- MCKnowledge
    Fraction <- MCFraction
    AsOf <- MCAsOf
    Labels <- MCLabels
    Gens <- MCGens
    Writers <- MCWriters
    MaxStarts = 2
    Backdated = FALSE
INVARIANTS
    ImplementationsAgree
    IncrementalEqualsFull
    DatasetsAreReproducible
SYMMETRY Symmetry
CHECK_DEADLOCK FALSE
