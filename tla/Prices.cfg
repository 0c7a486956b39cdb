CONSTANTS
  Key = {d1, d2}
  Hour = {h1, h2}
  Caller = {c1, c2}
  MaxFetches = 3
  MaxOutages = 2
SPECIFICATION FairPricesSpec
INVARIANTS OneFetchPerDay QuotesAreGenuine
PROPERTIES CachedStays LoadingEnds
CHECK_DEADLOCK FALSE
