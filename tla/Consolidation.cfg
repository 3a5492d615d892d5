CONSTANTS
  i1 = i1
  i2 = i2
  i3 = i3
  i4 = i4
  t1 = t1
  t2 = t2
  Item <- Four
  Source <- SharedSource
  Size <- MixedSize
  Ticker <- Both
  Crews <- OneOrBoth
  MaxPending = 3
  Window = 3
  Excerpt = 2
  MaxSources = 2
  MaxContent = 3
  TickSeconds = 1
  MaxCrashes = 1
SPECIFICATION Spec
INVARIANTS TypeOK NotesHaveRecaps RecapsPerSource SecretIsNotRecapped
PROPERTIES FreshSourcesOnly
CHECK_DEADLOCK FALSE
