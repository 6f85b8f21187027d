SPECIFICATION ServicesSpec
CHECK_DEADLOCK FALSE
CONSTANTS
  MaxFixups = 1
  Apps = {a, b}
  All = All
  None = None
  Unspecified = Unspecified
  PermRequests = {r1, r2}
  GroupRequests = {r1, r2}
  GroupIDs = {g1, g2}
  GroupNames = {n1}
  Nameless = Nameless
  MaxRequests = 3
  Bytes = {0, 1, 170, 255}
  MaxBytes = 4
  Numbers = {0, 9, 10}
  MaxComponents = 3
  Letters = {97, 98}
  MaxLetters = 3
  CellLengths = {0, 2, 5}
  CellBreaks = {{}, {1}}
  Widths = {2, 3, 6}
  Amounts = {0, 5, 1023, 1024, 1500, 1048576, 5000000, 1073741823, 1073741824}
  Instances = {i1}
  Spaces = {s1, s2}
  SecretNames = {c1}
  Pods = {1, 2, 3}
  MaxChanges = 2
  NameTasks = {t1, t2, t3}
  MaxOutside = 2
  MaxItems = 3
  MaxCodes = 5
  MapKeys = {x, y}
  MapIDs = {i, j}
  MapVersions = {1, 2}
  CatalogueRequests = {r1, r2}
  MaxVersion = 2
  MaxLookups = 3
INVARIANTS
  NothingHalfway EffectsAuthorized SuccessMeansDone GroupRecordsAgree ConversionsRight
  InspectionRight CatalogueRight NamesOfOthersKept OutputRight MapHoldsPairs
PROPERTY
  PermissionsKept
