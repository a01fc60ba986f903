SPECIFICATION CacheSpec
CONSTANTS
  Entries = {k1, k2}
  Values = {v1, v2}
  NoItem = NoItem
  Ttl = 1
  MaxTime = 2
  MaxQueue = 2
  MayReject = TRUE
INVARIANTS CacheTypeOK WriteIsDurable
PROPERTIES ServesLastWrite
