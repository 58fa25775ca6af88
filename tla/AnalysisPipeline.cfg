SPECIFICATION Spec
CONSTANTS
  FieldNames = {"CharField", "ForeignKey", "OneToOneField", "BigAutoField"}
  ModelBaseNames = {}
  Private = {"__all__"}
  Lower <- mcLower
  SourceFiles <- mcSourceFiles
  RuntimeApp <- mcRuntimeApp
  ManagerClassNames = {"Manager", "BookManager"}
  InstanceBuiltins <- mcInstanceBuiltins
  ManagerBuiltins <- mcManagerBuiltins
  QuerysetBuiltins <- mcQuerysetBuiltins
  Texts <- mcTexts
  InitialDisk <- mcInitialDisk
  MaxSaves = 3
  Orders = {TRUE, FALSE}
INVARIANTS IndexIsCurrent GraphIsCurrent Converged RelationsArePaired SurfaceIsCurrent FallbackIsCurrent ClientFollows AnswersAgree
PROPERTIES RefreshCovers
CHECK_DEADLOCK FALSE
