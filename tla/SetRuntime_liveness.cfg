CONSTANTS
  r1 = r1  r2 = r2  r3 = r3  en = en  fr = fr
  Requests = {r1, r2}
  Locales = {en, fr}
  None = None
  Locale <- TwoLocales
  MayFail = {r1}
  MayMiss = {r1, r2}
  MayBeStale = TRUE
  MayExpire = TRUE
SPECIFICATION FairSpec
PROPERTIES RuntimeSetsEnd FetchesEnd
