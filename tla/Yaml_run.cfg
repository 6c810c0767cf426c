SPECIFICATION Spec
CONSTANTS
  MaxDepth = 6
  IntBits = 8
  Families <- MCFamilies
  Texts <- MCTexts
INVARIANTS NoAssertFails WrittenIsRead DumpIsRead SettingsRestored KeysInQueue LoadIsLinear
