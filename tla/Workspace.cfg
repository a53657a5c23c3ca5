SPECIFICATION Spec
CONSTANTS
  Names <- MCNames
  Files <- MCFiles
  Folders <- MCFolders
  Virtual <- MCVirtual
  Configs <- MCConfigs
  ConfigDirs <- MCConfigDirs
  Settings <- MCSettings
  ElsewhereDir <- Top
  Markable <- MCMarkable
  MaxFolders = 2
INVARIANTS
  TypeOK
  FoldersAreTheClients
  OrderIsIrrelevant
  WithinFolder
  RealProject
  OneProjectPerTree
CHECK_DEADLOCK FALSE
