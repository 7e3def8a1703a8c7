SPECIFICATION Spec
CONSTANTS
  Projects <- MCProjects
  WellKnown <- MCWellKnown
  LooksLike <- MCLooksLike
  AccessMods <- MCAccessMods
INVARIANTS
  RegressionsExact
  OpinionsAgree
CHECK_DEADLOCK FALSE
