------------------------- MODULE MCVBucketHistory --------------------------
EXTENDS VBucketHistory, TLC

AllConditions == Conditions
UnflushedAtRollback == Conditions \ {"flushed-at-rollback"}
PromotedMidSnapshot == Conditions \ {"whole-snapshot-promoted"}
AdjacentErase == Conditions \ {"ordered-erase"}
PurgeForgotten == Conditions \ {"purge-never-forgotten"}
FlushedBeforeBranch == Conditions \ {"branch-persisted-first"}

Symmetry == Permutations(Node) \cup Permutations(Key)
=============================================================================
