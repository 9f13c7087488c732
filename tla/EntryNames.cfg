SPECIFICATION Spec
CONSTANTS
  MaxFieldLen = 4
  MaxNameLen = 4
  RawNames <- AllNames
  Targets <- SomeTargets
  CommentLens <- SomeLens
INVARIANTS
  TypeOK
  NoEscape
  SlashTellsDirectory
  StoredNameFits
  Canonical
  RefusalJustified
CHECK_DEADLOCK FALSE
