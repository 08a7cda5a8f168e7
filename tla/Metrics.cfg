SPECIFICATION FairSpec
CONSTANTS
  Requests = {q1, q2}
  Scrapers = {s1}
  None = None
INVARIANTS
  TypeOK
  ScrapeConsistent
  NoCountLost
PROPERTIES
  RequestsReturn
