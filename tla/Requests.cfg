CONSTANTS
  Ids = 4
  Files = {f1, f2}
  RootDir = root
  Names = {1, 2}
  Handles = {1, 2}
  None = None
  Configs <- MCConfigs
  Kernels <- MCKernels
  Scripts <- MCScripts
  MaxRequests = 3
  NameParts = {"a", "b"}
  MaxName = 3
  MaxFlags = 3
  Slots = 4
  Sizes = {2, 3, 4}
  ReplyDirent = 2
  MaxBuffers = 3
  MaxLen = 2
SPECIFICATION MCSpec
INVARIANTS
  RequestsAnswered
  EntryRefs
  IdentityKept
  PrivilegesDropped
  NamesRoundTrip
  IdsMapped
  FlagsTranslated
  ChainInOrder
  ListedOnce
PROPERTY HostUntouched
CHECK_DEADLOCK FALSE
