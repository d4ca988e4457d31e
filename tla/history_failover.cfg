SPECIFICATION Spec
CONSTANTS
  Node = {n1, n2}
  Key = {k1, k2}
  Deletes = {FALSE}
  MaxFailoverEntries = 2
  MaxWrites = 2
  MaxPromotions = 3
  MaxCrashes = 0
  MaxCompactions = 0
  Uuid = {1, 2, 3, 4, 5, 6, 7, 8}
  Assumed <- AllConditions
SYMMETRY Symmetry
INVARIANTS
  
  RollbackLowersStart
  
  StreamedPrefix
