CONSTANTS
  Tokens = {t1, t2}
  Spent = {t1}
  NoToken = NoToken
  Commands = {m1}
  Unit = Unit
  Humans = {h1}
  Overlap = FALSE
  MaxEnrolments = 2
  MaxBoots = 2
  MaxCrashes = 1
SPECIFICATION LifeFairSpec
INVARIANTS ConnectsAsSaved InstalledIsWhole
PROPERTIES NotPresentedAgain FreshTokenEnrols
CHECK_DEADLOCK FALSE
