SPECIFICATION Spec
CONSTANTS
  Node = {n1, n2}
  Key = {k1, k2}
  Deletes = {TRUE, FALSE}
  MaxFailoverEntries = 2
  MaxWrites = 3
  MaxPromotions = 1
  MaxCrashes = 0
  MaxCompactions = 1
  Uuid = {1, 2, 3, 4, 5, 6, 7, 8}
  Assumed <- AllConditions
SYMMETRY Symmetry
INVARIANTS
  
  StreamedPrefix
