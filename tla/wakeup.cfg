SPECIFICATION FairSpec
CONSTANTS
  Streams = {s1}
  Threads = {t1}
  worker = worker
  MaxItems = 2
  BufferSize = 1
  Sizes = {1}
  s1 = s1
  t1 = t1

INVARIANTS
  TypeOK
  AnnouncedIsListed
  BacklogIsAnnounced
  
  OneNotification
PROPERTY
  EverythingIsSent
