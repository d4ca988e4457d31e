CONSTANTS
  Keys = {k1, k2}
  Streams = {"dcp"}
  MaxSeqno = 3
  MaxChkId = 3
  ChkMaxItems = 2
  MaxCheckpoints = 2
  KeepClosed = {FALSE}
  MergeClosed = {FALSE}
  Flags = {"none", "takeover", "latest", "diskonly"}
  MaxEvents = 4
  Assumed = {"closed_first", "scan_opens"}
SPECIFICATION StreamSpec
SYMMETRY KeySymmetry
CHECK_DEADLOCK FALSE
INVARIANT TakeoverComplete
