CONSTANTS
  r1 = r1  r2 = r2  r3 = r3  en = en  fr = fr
  Requests = {r1, r2, r3}
  Locales = {en, fr}
  None = None
  Locale <- TwoLocales
  MayFail = {r1}
  MayMiss = {r1, r2, r3}
  MayBeStale = FALSE
  MayExpire = FALSE
SPECIFICATION Spec
INVARIANTS RegistrySound InventoryOwned ListenersHaveWriter
SYMMETRY SameLocaleSymmetry
