CONSTANTS
  Word <- WordDef
  LowerWord <- LowerWordDef
  Prefix <- PrefixDef
  Lists <- ListsDef
SPECIFICATION Spec
INVARIANTS
  BuiltInOrder
  NoneSkipped
  PanicsAtOnce
  SkusAreDistinct
