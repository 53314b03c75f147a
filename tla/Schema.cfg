SPECIFICATION Spec
CONSTANTS
  Rank <- MCRank
  InitialTypesMax = 20
  Items <- MCItems
  MaxItems = 2
  MaxTypedefs = 2
  UidForms <- MCUidForms
  Configs <- MCConfigs
  Locals <- MCLocals
  Texts <- MCTexts
  Defaults <- MCDefaults
INVARIANTS TypeOK ValidatesConformance ConversionsAgree DefaultsOnlyWhenAbsent
PROPERTY SchemaIsItsOwn
