CONSTANTS
  Tokens = {t1, t2}
  Spent = {t1}
  NoToken = NoToken
  Commands = {m1}
  Unit = Unit
  Humans = {h1}
  Overlap = TRUE
  MaxEnrolments = 2
  MaxBoots = 2
  MaxCrashes = 1
SPECIFICATION LifeSpec
INVARIANT InstalledIsWhole
CHECK_DEADLOCK FALSE
