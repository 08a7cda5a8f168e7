SPECIFICATION Spec
CONSTANTS
  Trips = {t1}
  Times <- MCTimes
  Offsets <- MCZoned
  Vendors = {1, 2}
  Flags = {"N"}
  MaxEntries = 2
  NoZone = NoZone
  NoSeconds = NoSeconds
  NoRequest = NoRequest
INVARIANT AnswerFitsRequest
