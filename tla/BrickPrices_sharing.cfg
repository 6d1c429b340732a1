SPECIFICATION Spec
CONSTANTS
  Sets = {s1, s2, s3}
  Bricks = {b1, b2, b3, c}
  Elements = {e1, e2, e3}
  s1 = s1
  s2 = s2
  s3 = s3
  b1 = b1
  b2 = b2
  b3 = b3
  c = c
  e1 = e1
  e2 = e2
  e3 = e3
  None = None
  Designs = {"d1", "d2"}
  Locales = {"us", "fr"}
  Custom = {c}
  InventoryOf <- MCInventoryOf
  WriterOf <- MCWriterOf
  LocaleOf <- MCLocaleOf
  ElementOf <- MCElementOf
  DesignOf <- MCDesignOf
  PartColor <- MCPartColor
  Quantity <- MCQuantity
  Running <- MCRunning
  Offers <- MCOffers
  Stored <- MCStored
  MaxCents = 2
  MaxFaults = 1
INVARIANTS EntriesBelong CountedOnce SoldIsFinal
PROPERTY CachedPriceNeverRises
CHECK_DEADLOCK FALSE
