SPECIFICATION GuardSpec
CONSTANTS
  Window = 4
  Resolution = 2
  MinSamples = 3
  RatioPercent = 50
  MaxSkew = 4
  MaxTime = 8
  MaxPerTime = 1
INVARIANTS GuardTypeOK RingIsExact TripIsEarned
PROPERTY TripsExactly
