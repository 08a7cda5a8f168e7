SPECIFICATION Spec
CONSTANTS
  Trips = {t1}
  Times <- MCTimes
  Offsets <- MCOffsets
  Vendors = {0, 2}
  Flags = {"N"}
  MaxEntries = 2
  NoZone = NoZone
  NoSeconds = NoSeconds
  NoRequest = NoRequest
INVARIANT
  SameTraffic
