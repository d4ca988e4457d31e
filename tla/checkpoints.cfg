CONSTANTS
  Keys = {k1, k2}
  Streams = {"s1"}
  MaxSeqno = 3
  MaxChkId = 3
  ChkMaxItems = 2
  MaxCheckpoints = 2
  KeepClosed = {FALSE, TRUE}
  MergeClosed = {FALSE, TRUE}
SPECIFICATION Spec
SYMMETRY KeySymmetry
CHECK_DEADLOCK FALSE
INVARIANTS TypeOK UnpersistedStaysInMemory RemainingIsExact 
 
