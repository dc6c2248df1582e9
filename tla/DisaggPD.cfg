\* Two requests, one of two chunks, one perhaps too long for the decode, which
\* has room for one at a time.
SPECIFICATION FairSpec
CONSTANTS
  NumRequests = 2
  Chunks <- Chunks21
  MayBeTooLong = {2}
  Leavers = {1}
  Capacity = 1
  MaxFaults = 1
  MaxResends = 1
  MaxUnlinks = 1
INVARIANTS KvInItsReservation NoOrphanReservation NoPrefillAcrossUnlink
PROPERTIES RequestsEnd
CHECK_DEADLOCK FALSE
