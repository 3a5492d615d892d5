CONSTANTS
  i1 = i1
  i2 = i2
  i3 = i3
  i4 = i4
  t1 = t1
  t2 = t2
  Item <- Four
  Source <- SharedSource
  Size <- MixedSize
  Ticker <- Both
  Crews <- OneOrBoth
  MaxPending = 3
  Window = 4
  Excerpt = 1
  MaxSources = 2
  MaxContent = 3
  TickSeconds = 1
  MaxCrashes = 1
SPECIFICATION Spec
INVARIANTS RepresentedIsRecapped
CHECK_DEADLOCK FALSE
